---- MODULE Spec2Model ----
(***************************************************************************)
(* Model of src/sales_workflow_cli.py: the extraction, merge, scoring and  *)
(* action-planning pipeline of the sales workflow agent.                   *)
(*                                                                         *)
(* A Python str is a sequence of characters.  A character is written as a  *)
(* one-character string for ASCII ("A", " ", "\n") and as "uXXXX" (its     *)
(* code point) otherwise, e.g. "u5ba2","u6237" is 客户 and "uff1a" is the  *)
(* full-width colon.  Every vocabulary below carries the source literal in *)
(* the comment above it.                                                   *)
(***************************************************************************)
EXTENDS Integers, Sequences, FiniteSets, TLC

VARIABLES pc, text, llm_out, cfg, fields, merged, scores, actions, email

vars == <<pc, text, llm_out, cfg, fields, merged, scores, actions, email>>

(***************************************************************************)
(* Characters: classes used by the re module and by str.strip().           *)
(***************************************************************************)
\* \s and str.strip(): the whitespace of the model's alphabet
IsSpace(c) == c \in {" ", "\n", "\t"}

\* the characters of the model's alphabet that \w does not match
\* (space, newline, tab, ASCII punctuation, • 。 – （ ） ， ： ； ？)
NonWordChars ==
    {" ", "\n", "\t", ":", ";", ",", ".", "?", "!", "(", ")", "-", "/", "&", "+",
     "{", "}", "[", "]", "\"", "'", "#", "=", "*",
     "u2022", "u3002", "u2013", "uff08", "uff09", "uff0c", "uff1a", "uff1b", "uff1f"}

IsWord(c) == c \notin NonWordChars

\* re.IGNORECASE on the letters of the alphabet
LowerMap ==
    ("A" :> "a") @@ ("B" :> "b") @@ ("C" :> "c") @@ ("D" :> "d") @@ ("E" :> "e") @@
    ("F" :> "f") @@ ("G" :> "g") @@ ("H" :> "h") @@ ("I" :> "i") @@ ("J" :> "j") @@
    ("K" :> "k") @@ ("L" :> "l") @@ ("M" :> "m") @@ ("N" :> "n") @@ ("O" :> "o") @@
    ("P" :> "p") @@ ("Q" :> "q") @@ ("R" :> "r") @@ ("S" :> "s") @@ ("T" :> "t") @@
    ("U" :> "u") @@ ("V" :> "v") @@ ("W" :> "w") @@ ("X" :> "x") @@ ("Y" :> "y") @@
    ("Z" :> "z")

Lower(c) == IF c \in DOMAIN LowerMap THEN LowerMap[c] ELSE c

EqCh(a, b, ic) == IF ic THEN Lower(a) = Lower(b) ELSE a = b

SetMin(S) == CHOOSE x \in S : \A y \in S : x <= y

SetMax(S) == CHOOSE x \in S : \A y \in S : x >= y

(***************************************************************************)
(* Strings: str.strip, str.startswith, str.endswith, " ".join, and the     *)
(* building blocks of re.search.                                           *)
(***************************************************************************)
Strip(s) ==
    LET keep == {i \in 1..Len(s) : ~IsSpace(s[i])}
    IN  IF keep = {} THEN <<>> ELSE SubSeq(s, SetMin(keep), SetMax(keep))

\* the literal lit stands in t at position i (1-based)
MatchAt(t, i, lit, ic) ==
    /\ i >= 1
    /\ i + Len(lit) - 1 <= Len(t)
    /\ \A k \in 1..Len(lit) : EqCh(t[i + k - 1], lit[k], ic)

StartsWith(s, p) == MatchAt(s, 1, p, FALSE)

EndsWith(s, p) == MatchAt(s, Len(s) - Len(p) + 1, p, FALSE)

\* re.search(re.escape(lit), t): lit occurs somewhere in t
Occurs(t, lit, ic) == \E i \in 1..Len(t) : MatchAt(t, i, lit, ic)

OccursAny(t, lits, ic) == \E k \in 1..Len(lits) : Occurs(t, lits[k], ic)

\* \b at position i: between t[i-1] and t[i]
Boundary(t, i) ==
    (i - 1 >= 1 /\ i - 1 <= Len(t) /\ IsWord(t[i - 1])) # (i >= 1 /\ i <= Len(t) /\ IsWord(t[i]))

\* re.search(r"\blit\b", t)
WordOccurs(t, lit, ic) ==
    \E i \in 1..Len(t) : Boundary(t, i) /\ MatchAt(t, i, lit, ic) /\ Boundary(t, i + Len(lit))

RECURSIVE Join(_)
\* " ".join(xs)
Join(xs) ==
    IF Len(xs) = 0 THEN <<>>
    ELSE IF Len(xs) = 1 THEN xs[1]
    ELSE xs[1] \o <<" ">> \o Join(Tail(xs))

\* list(dict.fromkeys(xs)): the first occurrence of each element, in order
Dedup(xs) ==
    LET first == {i \in 1..Len(xs) : \A j \in 1..(i - 1) : xs[j] # xs[i]}
        F[i \in 0..Len(xs)] ==
            IF i = 0 THEN <<>>
            ELSE IF i \in first THEN Append(F[i - 1], xs[i]) ELSE F[i - 1]
    IN  F[Len(xs)]

\* a match object (or no match): the span of group 1
NoMatch == [hit |-> FALSE, g |-> <<>>]

Matched(t, s, e) == [hit |-> TRUE, g |-> SubSeq(t, s, e)]

\* how many whitespace characters stand at j, j+1, ...
SpaceRun(t, j) ==
    LET non == {k \in j..Len(t) : ~IsSpace(t[k])}
    IN  (IF non = {} THEN Len(t) + 1 ELSE SetMin(non)) - j

\* the last position of the longest run of characters outside excl from s
RunEnd(t, s, excl) ==
    LET stops == {k \in s..Len(t) : t[k] \in excl}
    IN  IF stops = {} THEN Len(t) ELSE SetMin(stops) - 1

\* \s*([^excl]+) anchored at j: \s* is greedy and gives back whitespace
\* until the group can take one character; the group is greedy.
\* The result is <<start, end>> of the group, or <<0, 0>>.
CaptureAfterSpaces(t, j, excl) ==
    LET w  == SpaceRun(t, j)
        ks == {k \in 0..w : j + k <= Len(t) /\ t[j + k] \notin excl}
    IN  IF ks = {} THEN <<0, 0>>
        ELSE <<j + SetMax(ks), RunEnd(t, j + SetMax(ks), excl)>>

Colons == {":", "uff1a"}

\* label[:：]\s*([^excl]+) anchored at i
LabelAt(t, i, label, excl) ==
    IF MatchAt(t, i, label, TRUE) /\ i + Len(label) <= Len(t) /\ t[i + Len(label)] \in Colons
    THEN CaptureAfterSpaces(t, i + Len(label) + 1, excl)
    ELSE <<0, 0>>

\* re.search(r"label[:：]\s*([^excl]+)", t, IGNORECASE): the leftmost match
SearchLabel(t, label, excl) ==
    LET at == {i \in 1..Len(t) : LabelAt(t, i, label, excl)[1] > 0}
    IN  IF at = {} THEN NoMatch
        ELSE LET c == LabelAt(t, SetMin(at), label, excl) IN Matched(t, c[1], c[2])

Bullets == {"-", "u2022"}

\* [-•]\s*label[:：]\s*([^\n]+) anchored at i
BulletAt(t, i, label) ==
    IF i <= Len(t) /\ t[i] \in Bullets
    THEN LabelAt(t, i + 1 + SpaceRun(t, i + 1), label, {"\n"})
    ELSE <<0, 0>>

\* re.search(r"[-•]\s*label[:：]\s*([^\n]+)", t, IGNORECASE)
SearchBullet(t, label) ==
    LET at == {i \in 1..Len(t) : BulletAt(t, i, label)[1] > 0}
    IN  IF at = {} THEN NoMatch
        ELSE LET c == BulletAt(t, SetMin(at), label) IN Matched(t, c[1], c[2])

\* Python's None / a str
None == [some |-> FALSE, v |-> <<>>]

Some(s) == [some |-> TRUE, v |-> s]

\* truth value of an Optional[str]
Truthy(o) == o.some /\ o.v # <<>>

\* ["我们想", "想做", "搞个", "有没有", "能不能", "就是", "现在"]
company_prefixes ==
    << <<"u6211","u4eec","u60f3">>,
       <<"u60f3","u505a">>,
       <<"u641e","u4e2a">>,
       <<"u6709","u6ca1","u6709">>,
       <<"u80fd","u4e0d","u80fd">>,
       <<"u5c31","u662f">>,
       <<"u73b0","u5728">> >>

\* ["有限公司", "股份有限公司", "集团", "科技", "贸易", "物流", "医疗", "信息", "网络", "软件", "咨询", "公司"]
company_suffixes ==
    << <<"u6709","u9650","u516c","u53f8">>,
       <<"u80a1","u4efd","u6709","u9650","u516c","u53f8">>,
       <<"u96c6","u56e2">>,
       <<"u79d1","u6280">>,
       <<"u8d38","u6613">>,
       <<"u7269","u6d41">>,
       <<"u533b","u7597">>,
       <<"u4fe1","u606f">>,
       <<"u7f51","u7edc">>,
       <<"u8f6f","u4ef6">>,
       <<"u54a8","u8be2">>,
       <<"u516c","u53f8">> >>

\* ["手动", "低效", "遗漏", "数据不一致", "分散", "节奏很乱", "未跟进", "不太爱填", "很乱", "manual", "slow", "漏跟进", "麻烦"]
pain_kw ==
    << <<"u624b","u52a8">>,
       <<"u4f4e","u6548">>,
       <<"u9057","u6f0f">>,
       <<"u6570","u636e","u4e0d","u4e00","u81f4">>,
       <<"u5206","u6563">>,
       <<"u8282","u594f","u5f88","u4e71">>,
       <<"u672a","u8ddf","u8fdb">>,
       <<"u4e0d","u592a","u7231","u586b">>,
       <<"u5f88","u4e71">>,
       <<"m","a","n","u","a","l">>,
       <<"s","l","o","w">>,
       <<"u6f0f","u8ddf","u8fdb">>,
       <<"u9ebb","u70e6">> >>

\* ["自动化", "workflow", "tracking", "数据追踪", "CRM", "Salesforce", "发票", "invoice", "dashboard", "提醒", "超过48小时未跟进", "会后总结", "复盘", "英文", "email", "邮箱", "WhatsApp", "微信", "导出 Excel/CSV", "导出Excel/CSV"]
must_kw ==
    << <<"u81ea","u52a8","u5316">>,
       <<"w","o","r","k","f","l","o","w">>,
       <<"t","r","a","c","k","i","n","g">>,
       <<"u6570","u636e","u8ffd","u8e2a">>,
       <<"C","R","M">>,
       <<"S","a","l","e","s","f","o","r","c","e">>,
       <<"u53d1","u7968">>,
       <<"i","n","v","o","i","c","e">>,
       <<"d","a","s","h","b","o","a","r","d">>,
       <<"u63d0","u9192">>,
       <<"u8d85","u8fc7","4","8","u5c0f","u65f6","u672a","u8ddf","u8fdb">>,
       <<"u4f1a","u540e","u603b","u7ed3">>,
       <<"u590d","u76d8">>,
       <<"u82f1","u6587">>,
       <<"e","m","a","i","l">>,
       <<"u90ae","u7bb1">>,
       <<"W","h","a","t","s","A","p","p">>,
       <<"u5fae","u4fe1">>,
       <<"u5bfc","u51fa"," ","E","x","c","e","l","/","C","S","V">>,
       <<"u5bfc","u51fa","E","x","c","e","l","/","C","S","V">> >>

\* ["同步", "集成", "导出", "Slack", "企微", "飞书", "小程序", "bot"]
nice_kw ==
    << <<"u540c","u6b65">>,
       <<"u96c6","u6210">>,
       <<"u5bfc","u51fa">>,
       <<"S","l","a","c","k">>,
       <<"u4f01","u5fae">>,
       <<"u98de","u4e66">>,
       <<"u5c0f","u7a0b","u5e8f">>,
       <<"b","o","t">> >>

\* ["CEO", "CTO", "采购", "财务", "运营", "销售总监", "老板", "procurement", "finance", "ops", "sales"]
role_kw ==
    << <<"C","E","O">>,
       <<"C","T","O">>,
       <<"u91c7","u8d2d">>,
       <<"u8d22","u52a1">>,
       <<"u8fd0","u8425">>,
       <<"u9500","u552e","u603b","u76d1">>,
       <<"u8001","u677f">>,
       <<"p","r","o","c","u","r","e","m","e","n","t">>,
       <<"f","i","n","a","n","c","e">>,
       <<"o","p","s">>,
       <<"s","a","l","e","s">> >>

\* ["领导", "管理层", "总监", "management", "manager", "director"]
leadership_kw ==
    << <<"u9886","u5bfc">>,
       <<"u7ba1","u7406","u5c42">>,
       <<"u603b","u76d1">>,
       <<"m","a","n","a","g","e","m","e","n","t">>,
       <<"m","a","n","a","g","e","r">>,
       <<"d","i","r","e","c","t","o","r">> >>

\* ["领导", "管理层", "management"]
leadership_marker ==
    << <<"u9886","u5bfc">>,
       <<"u7ba1","u7406","u5c42">>,
       <<"m","a","n","a","g","e","m","e","n","t">> >>

\* ["领导", "管理层", "老板", "总监", "management", "manager", "director"]
leadership_hit_alts ==
    << <<"u9886","u5bfc">>,
       <<"u7ba1","u7406","u5c42">>,
       <<"u8001","u677f">>,
       <<"u603b","u76d1">>,
       <<"m","a","n","a","g","e","m","e","n","t">>,
       <<"m","a","n","a","g","e","r">>,
       <<"d","i","r","e","c","t","o","r">> >>

\* ["销售效率", "流程", "复盘", "看数据", "dashboard"]
enterprise_hit_alts ==
    << <<"u9500","u552e","u6548","u7387">>,
       <<"u6d41","u7a0b">>,
       <<"u590d","u76d8">>,
       <<"u770b","u6570","u636e">>,
       <<"d","a","s","h","b","o","a","r","d">> >>

\* ["公司", "企业", "集团", "机构", "团队"]
org_words ==
    << <<"u516c","u53f8">>,
       <<"u4f01","u4e1a">>,
       <<"u96c6","u56e2">>,
       <<"u673a","u6784">>,
       <<"u56e2","u961f">> >>

\* ["越快越好", "尽快", "ASAP", "as soon as possible"]
urgency_alts ==
    << <<"u8d8a","u5feb","u8d8a","u597d">>,
       <<"u5c3d","u5feb">>,
       <<"A","S","A","P">>,
       <<"a","s"," ","s","o","o","n"," ","a","s"," ","p","o","s","s","i","b","l","e">> >>

\* ["没有", "无", "未用", "不用", "不使用"]
crm_negations ==
    << <<"u6ca1","u6709">>,
       <<"u65e0">>,
       <<"u672a","u7528">>,
       <<"u4e0d","u7528">>,
       <<"u4e0d","u4f7f","u7528">> >>

\* ["发票", "invoice"]
invoice_alts ==
    << <<"u53d1","u7968">>,
       <<"i","n","v","o","i","c","e">> >>

\* ["自动化", "tracking", "数据追踪", "workflow", "dashboard"]
automation_kw ==
    << <<"u81ea","u52a8","u5316">>,
       <<"t","r","a","c","k","i","n","g">>,
       <<"u6570","u636e","u8ffd","u8e2a">>,
       <<"w","o","r","k","f","l","o","w">>,
       <<"d","a","s","h","b","o","a","r","d">> >>

\* ["两周内", "本月", "下月"]
timeline_simple_alts ==
    << <<"u4e24","u5468","u5185">>,
       <<"u672c","u6708">>,
       <<"u4e0b","u6708">> >>

\* "客户"
kw_customer == <<"u5ba2","u6237">>

\* "Company"
kw_company == <<"C","o","m","p","a","n","y">>

\* "行业"
kw_industry == <<"u884c","u4e1a">>

\* "预算"
kw_budget_zh == <<"u9884","u7b97">>

\* "budget"
kw_budget_en == <<"b","u","d","g","e","t">>

\* "时间线"
kw_timeline_zh == <<"u65f6","u95f4","u7ebf">>

\* "timeline"
kw_timeline_en == <<"t","i","m","e","l","i","n","e">>

\* "我们是"
kw_we_are == <<"u6211","u4eec","u662f">>

\* "一家"
kw_a == <<"u4e00","u5bb6">>

\* "B2B"
kw_B2B == <<"B","2","B">>

\* "B2C"
kw_B2C == <<"B","2","C">>

\* "CRM"
kw_CRM == <<"C","R","M">>

\* "Salesforce"
kw_Salesforce == <<"S","a","l","e","s","f","o","r","c","e">>

\* "周内"
kw_weeks == <<"u5468","u5185">>

\* "个月"
kw_months == <<"u4e2a","u6708">>

\* "1-2"
kw_1_2 == <<"1","-","2">>

\* "会后总结"
kw_meeting_summary == <<"u4f1a","u540e","u603b","u7ed3">>

\* "跟进提醒"
kw_followup_reminder == <<"u8ddf","u8fdb","u63d0","u9192">>

\* "SQL"
kw_SQL == <<"S","Q","L">>

\* "MQL"
kw_MQL == <<"M","Q","L">>

\* "Unknown"
Unknown == <<"U","n","k","n","o","w","n">>

\* "Likely B2B (inferred)"
LikelyB2B == <<"L","i","k","e","l","y"," ","B","2","B"," ","(","i","n","f","e","r","r","e","d",")">>

\* "ASAP（越快越好）"
AsapTimeline == <<"A","S","A","P","uff08","u8d8a","u5feb","u8d8a","u597d","uff09">>

\* "Unclear pain points"
UnclearPain == <<"U","n","c","l","e","a","r"," ","p","a","i","n"," ","p","o","i","n","t","s">>

\* "Unclear requirements"
UnclearReq == <<"U","n","c","l","e","a","r"," ","r","e","q","u","i","r","e","m","e","n","t","s">>

\* "领导/管理层（Reporting stakeholder）"
ReportingStakeholder == <<"u9886","u5bfc","/","u7ba1","u7406","u5c42","uff08","R","e","p","o","r","t","i","n","g"," ","s","t","a","k","e","h","o","l","d","e","r","uff09">>

\* "Sales workflow automation"
UseCaseDefault == <<"S","a","l","e","s"," ","w","o","r","k","f","l","o","w"," ","a","u","t","o","m","a","t","i","o","n">>

\* "Sales workflow + invoice checks"
UseCaseInvoice == <<"S","a","l","e","s"," ","w","o","r","k","f","l","o","w"," ","+"," ","i","n","v","o","i","c","e"," ","c","h","e","c","k","s">>

\* "Sales workflow + meeting summary + follow-up reminders + reporting"
UseCaseReporting == <<"S","a","l","e","s"," ","w","o","r","k","f","l","o","w"," ","+"," ","m","e","e","t","i","n","g"," ","s","u","m","m","a","r","y"," ","+"," ","f","o","l","l","o","w","-","u","p"," ","r","e","m","i","n","d","e","r","s"," ","+"," ","r","e","p","o","r","t","i","n","g">>

\* "Company name?（公司名称？）"
Q_company == <<"C","o","m","p","a","n","y"," ","n","a","m","e","?","uff08","u516c","u53f8","u540d","u79f0","uff1f","uff09">>

\* "Industry?（行业？）"
Q_industry == <<"I","n","d","u","s","t","r","y","?","uff08","u884c","u4e1a","uff1f","uff09">>

\* "B2B or B2C?（B2B 还是 B2C？）"
Q_b2b == <<"B","2","B"," ","o","r"," ","B","2","C","?","uff08","B","2","B"," ","u8fd8","u662f"," ","B","2","C","uff1f","uff09">>

\* "Which CRM are you using?（目前用的 CRM 是什么？）"
Q_crm == <<"W","h","i","c","h"," ","C","R","M"," ","a","r","e"," ","y","o","u"," ","u","s","i","n","g","?","uff08","u76ee","u524d","u7528","u7684"," ","C","R","M"," ","u662f","u4ec0","u4e48","uff1f","uff09">>

\* "Budget range?（预算范围？）"
Q_budget == <<"B","u","d","g","e","t"," ","r","a","n","g","e","?","uff08","u9884","u7b97","u8303","u56f4","uff1f","uff09">>

\* "Target timeline?（期望上线时间？）"
Q_timeline == <<"T","a","r","g","e","t"," ","t","i","m","e","l","i","n","e","?","uff08","u671f","u671b","u4e0a","u7ebf","u65f6","u95f4","uff1f","uff09">>

\* "Decision makers involved?（决策链角色？）"
Q_stakeholders == <<"D","e","c","i","s","i","o","n"," ","m","a","k","e","r","s"," ","i","n","v","o","l","v","e","d","?","uff08","u51b3","u7b56","u94fe","u89d2","u8272","uff1f","uff09">>

\* "Early (Needs discovery)"
DefaultStage == <<"E","a","r","l","y"," ","(","N","e","e","d","s"," ","d","i","s","c","o","v","e","r","y",")">>

\* "Hot"
Hot == <<"H","o","t">>

\* "Warm"
Warm == <<"W","a","r","m">>

\* "Cold"
Cold == <<"C","o","l","d">>

\* "Confirm key stakeholders & decision process（确认决策链与对接人）"
A_stakeholders == <<"C","o","n","f","i","r","m"," ","k","e","y"," ","s","t","a","k","e","h","o","l","d","e","r","s"," ","&"," ","d","e","c","i","s","i","o","n"," ","p","r","o","c","e","s","s","uff08","u786e","u8ba4","u51b3","u7b56","u94fe","u4e0e","u5bf9","u63a5","u4eba","uff09">>

\* "Schedule a 20-min discovery call to validate requirements（安排需求澄清电话）"
A_call == <<"S","c","h","e","d","u","l","e"," ","a"," ","2","0","-","m","i","n"," ","d","i","s","c","o","v","e","r","y"," ","c","a","l","l"," ","t","o"," ","v","a","l","i","d","a","t","e"," ","r","e","q","u","i","r","e","m","e","n","t","s","uff08","u5b89","u6392","u9700","u6c42","u6f84","u6e05","u7535","u8bdd","uff09">>

\* "Share a short workflow prototype outline + expected data fields（发送流程原型大纲与字段清单）"
A_prototype == <<"S","h","a","r","e"," ","a"," ","s","h","o","r","t"," ","w","o","r","k","f","l","o","w"," ","p","r","o","t","o","t","y","p","e"," ","o","u","t","l","i","n","e"," ","+"," ","e","x","p","e","c","t","e","d"," ","d","a","t","a"," ","f","i","e","l","d","s","uff08","u53d1","u9001","u6d41","u7a0b","u539f","u578b","u5927","u7eb2","u4e0e","u5b57","u6bb5","u6e05","u5355","uff09">>

\* "Confirm current CRM and data sources（确认当前 CRM 与数据来源/字段）"
A_crm == <<"C","o","n","f","i","r","m"," ","c","u","r","r","e","n","t"," ","C","R","M"," ","a","n","d"," ","d","a","t","a"," ","s","o","u","r","c","e","s","uff08","u786e","u8ba4","u5f53","u524d"," ","C","R","M"," ","u4e0e","u6570","u636e","u6765","u6e90","/","u5b57","u6bb5","uff09">>

\* "Collect 3–5 sample invoices to define validation rules（收集样例发票定义校验规则）"
A_invoice == <<"C","o","l","l","e","c","t"," ","3","u2013","5"," ","s","a","m","p","l","e"," ","i","n","v","o","i","c","e","s"," ","t","o"," ","d","e","f","i","n","e"," ","v","a","l","i","d","a","t","i","o","n"," ","r","u","l","e","s","uff08","u6536","u96c6","u6837","u4f8b","u53d1","u7968","u5b9a","u4e49","u6821","u9a8c","u89c4","u5219","uff09">>

\* "Propose a POC scope & timeline this week（本周给出 POC 范围与时间线）"
A_poc == <<"P","r","o","p","o","s","e"," ","a"," ","P","O","C"," ","s","c","o","p","e"," ","&"," ","t","i","m","e","l","i","n","e"," ","t","h","i","s"," ","w","e","e","k","uff08","u672c","u5468","u7ed9","u51fa"," ","P","O","C"," ","u8303","u56f4","u4e0e","u65f6","u95f4","u7ebf","uff09">>

\* "account_name"
K_account_name == <<"a","c","c","o","u","n","t","_","n","a","m","e">>

\* "industry"
K_industry == <<"i","n","d","u","s","t","r","y">>

\* "business_model"
K_business_model == <<"b","u","s","i","n","e","s","s","_","m","o","d","e","l">>

\* "use_case"
K_use_case == <<"u","s","e","_","c","a","s","e">>

\* "pain_points"
K_pain_points == <<"p","a","i","n","_","p","o","i","n","t","s">>

\* "must_haves"
K_must_haves == <<"m","u","s","t","_","h","a","v","e","s">>

\* "nice_to_haves"
K_nice_to_haves == <<"n","i","c","e","_","t","o","_","h","a","v","e","s">>

\* "budget"
K_budget == <<"b","u","d","g","e","t">>

\* "timeline"
K_timeline == <<"t","i","m","e","l","i","n","e">>

\* "stakeholders"
K_stakeholders == <<"s","t","a","k","e","h","o","l","d","e","r","s">>

\* "open_questions"
K_open_questions == <<"o","p","e","n","_","q","u","e","s","t","i","o","n","s">>

\* "source"
K_source == <<"s","o","u","r","c","e">>

\* "pii_redacted"
K_pii_redacted == <<"p","i","i","_","r","e","d","a","c","t","e","d">>

\* "raw_text_excerpt"
K_raw_text_excerpt == <<"r","a","w","_","t","e","x","t","_","e","x","c","e","r","p","t">>

\* "text_hash"
K_text_hash == <<"t","e","x","t","_","h","a","s","h">>

\* "客户：ABC有限公司。行业：B2B 医疗器械。预算：10万。时间线：2周内。"
ScenarioText == <<"u5ba2","u6237","uff1a","A","B","C","u6709","u9650","u516c","u53f8","u3002","u884c","u4e1a","uff1a","B","2","B"," ","u533b","u7597","u5668","u68b0","u3002","u9884","u7b97","uff1a","1","0","u4e07","u3002","u65f6","u95f4","u7ebf","uff1a","2","u5468","u5185","u3002">>

\* "ABC有限公司"
ScenarioAccount == <<"A","B","C","u6709","u9650","u516c","u53f8">>

\* "医疗器械"
ScenarioIndustry == <<"u533b","u7597","u5668","u68b0">>

\* "2周内"
ScenarioHorizon == <<"2","u5468","u5185">>

\* "2 周内"
ScenarioHorizonSpaced == <<"2"," ","u5468","u5185">>

\* "ABC"
s_ABC == <<"A","B","C">>

\* "ABCDEFGHIJKLMNOPQRSTUVWXYZ0123456789AB"
s_LongName == <<"A","B","C","D","E","F","G","H","I","J","K","L","M","N","O","P","Q","R","S","T","U","V","W","X","Y","Z","0","1","2","3","4","5","6","7","8","9","A","B">>

\* "SaaS"
s_SaaS == <<"S","a","a","S">>

\* "10万"
s_10wan == <<"1","0","u4e07">>

\* "Q3"
s_Q3 == <<"Q","3">>

\* "crm"
s_crm_lower == <<"c","r","m">>

\* "CRMs"
s_CRMs == <<"C","R","M","s">>

\* "Invoice"
s_Invoice == <<"I","n","v","o","i","c","e">>

\* "Workflow"
s_Workflow == <<"W","o","r","k","f","l","o","w">>

\* "salesforce"
s_salesforce_lower == <<"s","a","l","e","s","f","o","r","c","e">>

\* "SQL (Sales qualified)"
s_SQL_Ready == <<"S","Q","L"," ","(","S","a","l","e","s"," ","q","u","a","l","i","f","i","e","d",")">>

\* "MQL (Marketing qualified)"
s_MQL_Nurture == <<"M","Q","L"," ","(","M","a","r","k","e","t","i","n","g"," ","q","u","a","l","i","f","i","e","d",")">>

\* "Qualified"
s_Qualified == <<"Q","u","a","l","i","f","i","e","d">>

\* "sql-lite"
s_sql_lite == <<"s","q","l","-","l","i","t","e">>

\* "MQ"
s_MQ == <<"M","Q">>

\* "XYZ集团"
s_XYZ_Group == <<"X","Y","Z","u96c6","u56e2">>

\* "note"
s_note == <<"n","o","t","e">>

\* "b2b"
s_b2b_lower == <<"b","2","b">>

\* "B2c"
s_B2c_mixed == <<"B","2","c">>

(***************************************************************************)
(* Extraction (heuristic default)                                          *)
(***************************************************************************)
\* call_llm: the stub returns the two characters of "{}"
call_llm == <<"{", "}">>

\* find_first over the match of each pattern, in pattern order: the first
\* pattern that matches decides, and its group is stripped
\* the lowest-priority pattern that matches, in place of the first
find_first_last_pattern(ms) ==
    LET hits == {k \in 1..Len(ms) : ms[k].hit}
    IN  IF hits = {} THEN None ELSE Some(Strip(ms[SetMax(hits)].g))

find_first(ms) ==
    LET hits == {k \in 1..Len(ms) : ms[k].hit}
    IN  IF hits = {} THEN None ELSE Some(Strip(ms[SetMin(hits)].g))

MinNameLen == 4

MaxNameLen == 40

\* the guardrail without its length test
looks_like_company_name_any_length(s) ==
    IF s = <<>> THEN FALSE
    ELSE LET candidate == Strip(s)
         IN  IF \E k \in 1..Len(company_prefixes) : StartsWith(candidate, company_prefixes[k])
             THEN FALSE
             ELSE \E k \in 1..Len(company_suffixes) : EndsWith(candidate, company_suffixes[k])

looks_like_company_name(s) ==
    IF s = <<>> THEN FALSE
    ELSE LET candidate == Strip(s)
         IN  IF Len(candidate) < MinNameLen \/ Len(candidate) > MaxNameLen THEN FALSE
             ELSE IF \E k \in 1..Len(company_prefixes) : StartsWith(candidate, company_prefixes[k])
                  THEN FALSE
                  ELSE \E k \in 1..Len(company_suffixes) : EndsWith(candidate, company_suffixes[k])

\* (B2B|B2C) stands at i, in any letter case
ModelTokenAt(t, i) == MatchAt(t, i, kw_B2B, TRUE) \/ MatchAt(t, i, kw_B2C, TRUE)

\* re.search(r"\b(B2B|B2C)\b", t, IGNORECASE)
SearchModelWord(t) ==
    LET at == {i \in 1..Len(t) : Boundary(t, i) /\ ModelTokenAt(t, i) /\ Boundary(t, i + 3)}
    IN  IF at = {} THEN NoMatch ELSE Matched(t, SetMin(at), SetMin(at) + 2)

\* where the token of r"（\s*(B2B|B2C)\b" anchored at i starts, or 0
ModelParenAt(t, i) ==
    IF i <= Len(t) /\ t[i] = "uff08"
    THEN LET j == i + 1 + SpaceRun(t, i + 1)
         IN  IF ModelTokenAt(t, j) /\ Boundary(t, j + 3) THEN j ELSE 0
    ELSE 0

\* re.search(r"（\s*(B2B|B2C)\b", t, IGNORECASE)
SearchModelParen(t) ==
    LET at == {i \in 1..Len(t) : ModelParenAt(t, i) > 0}
    IN  IF at = {} THEN NoMatch
        ELSE LET j == ModelParenAt(t, SetMin(at)) IN Matched(t, j, j + 2)

Closers == {")", "uff09"}

\* r"（\s*(?:B2B|B2C)\s*([^\)）]+)[）\)]" anchored at i: the group's span
IndustryParenAt(t, i) ==
    IF i <= Len(t) /\ t[i] = "uff08"
    THEN LET j == i + 1 + SpaceRun(t, i + 1)
         IN  IF ModelTokenAt(t, j)
             THEN LET c == CaptureAfterSpaces(t, j + 3, Closers)
                  IN  IF c[1] > 0 /\ c[2] + 1 <= Len(t) THEN c ELSE <<0, 0>>
             ELSE <<0, 0>>
    ELSE <<0, 0>>

SearchIndustryParen(t) ==
    LET at == {i \in 1..Len(t) : IndustryParenAt(t, i)[1] > 0}
    IN  IF at = {} THEN NoMatch
        ELSE LET c == IndustryParenAt(t, SetMin(at)) IN Matched(t, c[1], c[2])

ClauseEnds == {"\n", "uff0c", "u3002", ";", "uff1b"}

\* the lengths g >= 1 of a group ([^\n，。;；]+?) starting at s that is
\* followed by (?:公司|企业|集团|机构|团队)
OrgGroupLens(t, s) ==
    {g \in 1..(Len(t) - s + 1) :
        /\ \A k \in s..(s + g - 1) : t[k] \notin ClauseEnds
        /\ \E w \in 1..Len(org_words) : MatchAt(t, s + g, org_words[w], TRUE)}

\* r"我们是[^\n]*?一家([^\n，。;；]+?)(?:公司|企业|集团|机构|团队)" anchored
\* at i: the positions p of 一家 from which the rest matches
WeAreAt(t, i) ==
    IF MatchAt(t, i, kw_we_are, TRUE)
    THEN {p \in (i + Len(kw_we_are))..Len(t) :
            /\ MatchAt(t, p, kw_a, TRUE)
            /\ \A k \in (i + Len(kw_we_are))..(p - 1) : t[k] # "\n"
            /\ OrgGroupLens(t, p + Len(kw_a)) # {}}
    ELSE {}

\* both quantifiers are lazy: the first 一家, then the shortest group
SearchWeAre(t) ==
    LET at == {i \in 1..Len(t) : WeAreAt(t, i) # {}}
    IN  IF at = {} THEN NoMatch
        ELSE LET p == SetMin(WeAreAt(t, SetMin(at)))
                 s == p + Len(kw_a)
             IN  Matched(t, s, s + SetMin(OrgGroupLens(t, s)) - 1)

Quarters == {"1", "2", "3", "4"}

\* r"(2\s*周内|1-2\s*个月|两周内|本月|下月|Q[1-4])" anchored at i: the end of
\* the first alternative that matches, or 0
HorizonAt(t, i) ==
    LET a1 == i + 1 + SpaceRun(t, i + 1)
        a2 == i + Len(kw_1_2) + SpaceRun(t, i + Len(kw_1_2))
        simple == {k \in 1..Len(timeline_simple_alts) : MatchAt(t, i, timeline_simple_alts[k], TRUE)}
    IN  IF MatchAt(t, i, <<"2">>, TRUE) /\ MatchAt(t, a1, kw_weeks, TRUE)
            THEN a1 + Len(kw_weeks) - 1
        ELSE IF MatchAt(t, i, kw_1_2, TRUE) /\ MatchAt(t, a2, kw_months, TRUE)
            THEN a2 + Len(kw_months) - 1
        ELSE IF simple # {}
            THEN i + Len(timeline_simple_alts[SetMin(simple)]) - 1
        ELSE IF MatchAt(t, i, <<"Q">>, TRUE) /\ i + 1 <= Len(t) /\ t[i + 1] \in Quarters
            THEN i + 1
        ELSE 0

SearchHorizon(t) ==
    LET at == {i \in 1..Len(t) : HorizonAt(t, i) > 0}
    IN  IF at = {} THEN NoMatch ELSE Matched(t, SetMin(at), HorizonAt(t, SetMin(at)))

NegationGap == 6

\* re.search(r"(没有|无|未用|不用|不使用).{0,6}CRM", t): case-sensitive
SearchCrmNegated(t) ==
    \E i \in 1..Len(t) : \E n \in 1..Len(crm_negations) :
        /\ MatchAt(t, i, crm_negations[n], FALSE)
        /\ \E d \in 0..NegationGap :
              /\ MatchAt(t, i + Len(crm_negations[n]) + d, kw_CRM, FALSE)
              /\ \A k \in (i + Len(crm_negations[n]))..(i + Len(crm_negations[n]) + d - 1) :
                    t[k] # "\n"

\* re.search(r"(领导|管理层|老板|总监|management|manager|director)", t, IGNORECASE)
leadership_hit(t) == OccursAny(t, leadership_hit_alts, TRUE)

\* re.search(r"(\bCRM\b|销售效率|流程|复盘|看数据|dashboard)", t, IGNORECASE)
enterprise_hit(t) == WordOccurs(t, kw_CRM, TRUE) \/ OccursAny(t, enterprise_hit_alts, TRUE)

\* [kw for kw in kws if re.search(re.escape(kw), t, flags=re.IGNORECASE)]
\* the keyword search without re.IGNORECASE
KeywordsIn_case_sensitive(t, kws) == SelectSeq(kws, LAMBDA kw : Occurs(t, kw, FALSE))

KeywordsIn(t, kws) == SelectSeq(kws, LAMBDA kw : Occurs(t, kw, TRUE))

\* the account candidate after the guardrail
ExtractAccount(t) ==
    LET account == find_first(<<SearchLabel(t, kw_customer, {"\n", "uff08"}),
                                SearchLabel(t, kw_company, {"\n"})>>)
    IN  IF Truthy(account) /\ ~looks_like_company_name(account.v) THEN None ELSE account

\* the explicit-role scan, then the leadership scan, then the normalisation
ExtractStakeholders(t) ==
    LET explicit == KeywordsIn(t, role_kw)
        raw      == IF explicit = <<>> THEN KeywordsIn(t, leadership_kw) ELSE explicit
        marked(s) == OccursAny(s, leadership_marker, TRUE)
    IN  IF \E k \in 1..Len(raw) : marked(raw[k])
        THEN Append(SelectSeq(raw, LAMBDA s : ~marked(s)), ReportingStakeholder)
        ELSE raw

\* xs or dflt, on a list
OrElse(xs, dflt) == IF xs = <<>> THEN dflt ELSE xs

\* the value without its sentinel: None stays the empty value
OrUnknown_none(o) == o.v

\* x or "Unknown", on an Optional[str]
OrUnknown(o) == IF Truthy(o) THEN o.v ELSE Unknown

\* the trigger without the inferred business model
CrmQuestionNeeded_mention_only(inferred, mentioned, known, negated) ==
    mentioned /\ ~known /\ ~negated

\* crm_question_needed
CrmQuestionNeeded(inferred, mentioned, known, negated) ==
    inferred \/ (mentioned /\ ~known /\ ~negated)

heuristic_extract(t) ==
    LET account  == ExtractAccount(t)
        explicit == find_first(<<SearchModelWord(t), SearchModelParen(t)>>)
        business_model_unknown  == ~Truthy(explicit)
        business_model_inferred ==
            business_model_unknown /\ leadership_hit(t) /\ enterprise_hit(t)
        business_model ==
            IF business_model_inferred THEN LikelyB2B
            ELSE IF business_model_unknown THEN Unknown ELSE explicit.v
        industry_detail ==
            find_first(<<SearchIndustryParen(t), SearchWeAre(t),
                         SearchLabel(t, kw_industry, {"\n"})>>)
        industry == IF Truthy(industry_detail) THEN Strip(industry_detail.v) ELSE Unknown
        budget ==
            find_first(<<SearchBullet(t, kw_budget_zh),
                         SearchLabel(t, kw_budget_zh, {"\n"}),
                         SearchLabel(t, kw_budget_en, {"\n"})>>)
        timeline0 ==
            find_first(<<SearchBullet(t, kw_timeline_zh),
                         SearchLabel(t, kw_timeline_zh, {"\n"}),
                         SearchLabel(t, kw_timeline_en, {"\n"}),
                         SearchHorizon(t)>>)
        timeline ==
            IF ~Truthy(timeline0) /\ OccursAny(t, urgency_alts, TRUE)
            THEN Some(AsapTimeline) ELSE timeline0
        pain_points   == KeywordsIn(t, pain_kw)
        must_haves    == KeywordsIn(t, must_kw)
        nice_to_haves == KeywordsIn(t, nice_kw)
        crm_mentioned == WordOccurs(Join(must_haves), kw_CRM, TRUE)
        crm_known     == WordOccurs(t, kw_Salesforce, TRUE)
        crm_negated   == SearchCrmNegated(t)
        crm_question_needed ==
            CrmQuestionNeeded(business_model_inferred, crm_mentioned, crm_known, crm_negated)
        stakeholders == ExtractStakeholders(t)
        open_questions ==
            (IF ~Truthy(account) THEN <<Q_company>> ELSE <<>>) \o
            (IF industry = <<>> \/ industry = Unknown THEN <<Q_industry>> ELSE <<>>) \o
            (IF business_model_unknown THEN <<Q_b2b>> ELSE <<>>) \o
            (IF crm_question_needed THEN <<Q_crm>> ELSE <<>>) \o
            (IF ~Truthy(budget) THEN <<Q_budget>> ELSE <<>>) \o
            (IF ~Truthy(timeline) THEN <<Q_timeline>> ELSE <<>>) \o
            (IF stakeholders = <<>> THEN <<Q_stakeholders>> ELSE <<>>)
        use_case ==
            IF /\ Occurs(t, kw_meeting_summary, FALSE)
               /\ Occurs(t, kw_followup_reminder, FALSE)
               /\ leadership_hit(t)
            THEN UseCaseReporting
            ELSE IF OccursAny(t, invoice_alts, TRUE) THEN UseCaseInvoice
            ELSE UseCaseDefault
    IN  [account_name   |-> OrUnknown(account),
         industry       |-> industry,
         business_model |-> business_model,
         use_case       |-> use_case,
         pain_points    |-> OrElse(Dedup(pain_points), <<UnclearPain>>),
         must_haves     |-> OrElse(Dedup(must_haves), <<UnclearReq>>),
         nice_to_haves  |-> Dedup(nice_to_haves),
         budget         |-> OrUnknown(budget),
         timeline       |-> OrUnknown(timeline),
         stakeholders   |-> OrElse(Dedup(stakeholders), <<Unknown>>),
         open_questions |-> open_questions]


(***************************************************************************)
(* Scoring & Stage                                                         *)
(***************************************************************************)
\* dict.get(k, dflt) on a mapping with string keys
Get(d, k, dflt) == IF k \in DOMAIN d THEN d[k] ELSE dflt

EmptyDict == [k \in {} |-> 0]

DefaultBaseFit == 50

DefaultBaseIntent == 50

DefaultFitIndustryKnown == 10

DefaultFitCrmSalesforce == 10

DefaultFitAutomation == 10

DefaultIntentBudgetKnown == 15

DefaultIntentTimelineKnown == 10

DefaultIntentFewQuestions == 10

FewQuestions == 1

MinScore == 0

MaxScore == 100

Max2(a, b) == IF a >= b THEN a ELSE b

Min2(a, b) == IF a <= b THEN a ELSE b

\* min(100, x): the clamp without its floor
Clamp_no_floor(x) == Min2(MaxScore, x)

\* max(0, min(100, x))
Clamp(x) == Max2(MinScore, Min2(MaxScore, x))

\* fields.get(k) and fields[k] != "Unknown"
Known(f, k) == Get(f, k, <<>>) # <<>> /\ f[k] # Unknown

\* the fit accumulator before clamping
FitRaw(f, sc) ==
    LET must == Join(Get(f, "must_haves", <<>>))
    IN  Get(sc, "base_fit", DefaultBaseFit)
        + (IF Known(f, "industry")
           THEN Get(sc, "fit_industry_known", DefaultFitIndustryKnown) ELSE 0)
        + (IF WordOccurs(must, kw_Salesforce, TRUE)
           THEN Get(sc, "fit_crm_salesforce", DefaultFitCrmSalesforce) ELSE 0)
        + (IF OccursAny(must, automation_kw, FALSE)
           THEN Get(sc, "fit_mentions_automation_tracking", DefaultFitAutomation) ELSE 0)

\* the intent accumulator before clamping
IntentRaw(f, sc) ==
    Get(sc, "base_intent", DefaultBaseIntent)
    + (IF Known(f, "budget")
       THEN Get(sc, "intent_budget_known", DefaultIntentBudgetKnown) ELSE 0)
    + (IF Known(f, "timeline")
       THEN Get(sc, "intent_timeline_known", DefaultIntentTimelineKnown) ELSE 0)
    + (IF Len(Get(f, "open_questions", <<>>)) <= FewQuestions
       THEN Get(sc, "intent_few_open_questions", DefaultIntentFewQuestions) ELSE 0)

\* fit >= int(rule.get("min_fit", 0)) and intent >= int(rule.get("min_intent", 0))
RuleHolds(rule, fit, intent) ==
    fit >= Get(rule, "min_fit", 0) /\ intent >= Get(rule, "min_intent", 0)

\* the scan without its break: the last rule that holds names the stage
ResolveStage_no_break(rules, fit, intent) ==
    LET hold == {k \in 1..Len(rules) : RuleHolds(rules[k], fit, intent)}
    IN  IF hold = {} THEN DefaultStage
        ELSE Get(rules[SetMax(hold)], "name", DefaultStage)

\* the scan of the rule table: the first rule that holds names the stage
ResolveStage(rules, fit, intent) ==
    LET hold == {k \in 1..Len(rules) : RuleHolds(rules[k], fit, intent)}
    IN  IF hold = {} THEN DefaultStage
        ELSE Get(rules[SetMin(hold)], "name", DefaultStage)

\* the rating with the prefixes compared in any letter case
RatingOf_any_case(stage) ==
    IF MatchAt(stage, 1, kw_SQL, TRUE) THEN Hot
    ELSE IF MatchAt(stage, 1, kw_MQL, TRUE) THEN Warm
    ELSE Cold

\* Simple rating for CRM
RatingOf(stage) ==
    IF StartsWith(stage, kw_SQL) THEN Hot
    ELSE IF StartsWith(stage, kw_MQL) THEN Warm
    ELSE Cold

score_and_stage(f, c) ==
    LET sc     == Get(c, "scoring", EmptyDict)
        fit    == Clamp(FitRaw(f, sc))
        intent == Clamp(IntentRaw(f, sc))
        stage  == ResolveStage(Get(c, "stage_rules", <<>>), fit, intent)
    IN  [fit_score |-> fit, intent_score |-> intent, stage |-> stage,
         rating |-> RatingOf(stage)]

(***************************************************************************)
(* Actions (template-based)                                                *)
(***************************************************************************)
\* list.insert(0, x)
Prepend(xs, x) == <<x>> \o xs

\* the POC action inserted before the CRM action is
generate_actions_poc_early(f, s) ==
    LET must    == Join(Get(f, "must_haves", <<>>))
        base    == <<A_stakeholders, A_call, A_prototype>>
        withPoc == IF StartsWith(s.stage, kw_SQL) THEN Prepend(base, A_poc) ELSE base
        withCrm == IF WordOccurs(must, kw_CRM, TRUE)
                      \/ Get(f, "business_model", <<>>) = LikelyB2B
                   THEN Prepend(withPoc, A_crm) ELSE withPoc
    IN  IF OccursAny(must, invoice_alts, TRUE)
        THEN Append(withCrm, A_invoice) ELSE withCrm

generate_actions(f, s) ==
    LET must    == Join(Get(f, "must_haves", <<>>))
        base    == <<A_stakeholders, A_call, A_prototype>>
        withCrm == IF WordOccurs(must, kw_CRM, TRUE)
                      \/ Get(f, "business_model", <<>>) = LikelyB2B
                   THEN Prepend(base, A_crm) ELSE base
        withInv == IF OccursAny(must, invoice_alts, TRUE)
                   THEN Append(withCrm, A_invoice) ELSE withCrm
    IN  IF StartsWith(s.stage, kw_SQL) THEN Prepend(withInv, A_poc) ELSE withInv


(***************************************************************************)
(* The external provider's output and json.loads.                          *)
(* The output is the sequence of its JSON tokens [k, v]: k is one of       *)
(* "{" "}" "[" "]" ":" "," "str" "num" "true" "false" "null", or "bad" for *)
(* text that is no JSON token; v holds the characters of a str or num.     *)
(* A Python value is [k, v] with k in "null" "str" "num" "bool" "list"     *)
(* "dict"; a dict is a function from its keys (strings) to values.         *)
(***************************************************************************)
Tok(k) == [k |-> k, v |-> <<>>]

StrTok(s) == [k |-> "str", v |-> s]

NumTok(s) == [k |-> "num", v |-> s]

PyNone == [k |-> "null", v |-> <<>>]

PyStr(s) == [k |-> "str", v |-> s]

PyNum(s) == [k |-> "num", v |-> s]

PyBool(b) == [k |-> "bool", v |-> b]

PyList(xs) == [k |-> "list", v |-> xs]

PyDict(d) == [k |-> "dict", v |-> d]

\* equality of two Python values
PyEq(a, b) == a.k = b.k /\ a.v = b.v

ParseFail == [ok |-> FALSE, val |-> PyNone, next |-> 0]

Parsed(val, next) == [ok |-> TRUE, val |-> val, next |-> next]

RECURSIVE ParseValue(_, _), ParseElements(_, _, _), ParseMembers(_, _, _)
\* one JSON value starting at token i
ParseValue(toks, i) ==
    IF i > Len(toks) THEN ParseFail
    ELSE LET t == toks[i]
             closes(c) == i + 1 <= Len(toks) /\ toks[i + 1].k = c
         IN  CASE t.k = "str"   -> Parsed(PyStr(t.v), i + 1)
               [] t.k = "num"   -> Parsed(PyNum(t.v), i + 1)
               [] t.k = "null"  -> Parsed(PyNone, i + 1)
               [] t.k = "true"  -> Parsed(PyBool(TRUE), i + 1)
               [] t.k = "false" -> Parsed(PyBool(FALSE), i + 1)
               [] t.k = "["     -> IF closes("]") THEN Parsed(PyList(<<>>), i + 2)
                                   ELSE ParseElements(toks, i + 1, <<>>)
               [] t.k = "{"     -> IF closes("}") THEN Parsed(PyDict(EmptyDict), i + 2)
                                   ELSE ParseMembers(toks, i + 1, EmptyDict)
               [] OTHER         -> ParseFail

\* value ("," value)* "]"
ParseElements(toks, i, acc) ==
    LET r == ParseValue(toks, i)
    IN  IF ~r.ok \/ r.next > Len(toks) THEN ParseFail
        ELSE IF toks[r.next].k = "," THEN ParseElements(toks, r.next + 1, Append(acc, r.val))
        ELSE IF toks[r.next].k = "]" THEN Parsed(PyList(Append(acc, r.val)), r.next + 1)
        ELSE ParseFail

\* str ":" value ("," str ":" value)* "}": a repeated key keeps its last value
ParseMembers(toks, i, acc) ==
    IF i + 1 > Len(toks) \/ toks[i].k # "str" \/ toks[i + 1].k # ":" THEN ParseFail
    ELSE LET r == ParseValue(toks, i + 2)
             d == (toks[i].v :> r.val) @@ acc
         IN  IF ~r.ok \/ r.next > Len(toks) THEN ParseFail
             ELSE IF toks[r.next].k = "," THEN ParseMembers(toks, r.next + 1, d)
             ELSE IF toks[r.next].k = "}" THEN Parsed(PyDict(d), r.next + 1)
             ELSE ParseFail

\* json.loads: the whole output is one value, or the call raises (ok = FALSE)
json_loads(toks) ==
    LET r == ParseValue(toks, 1)
    IN  IF r.ok /\ r.next = Len(toks) + 1 THEN r ELSE ParseFail

\* not v: the truth value in place of the four sentinels
IsEmptySentinel_falsy(x) ==
    \/ x.k = "null"
    \/ x.k = "bool" /\ ~x.v
    \/ x.k = "str" /\ x.v = <<>>
    \/ x.k = "list" /\ x.v = <<>>
    \/ x.k = "dict" /\ DOMAIN x.v = {}

\* v in [None, "", [], {}]
IsEmptySentinel(x) ==
    \/ x.k = "null"
    \/ x.k = "str" /\ x.v = <<>>
    \/ x.k = "list" /\ x.v = <<>>
    \/ x.k = "dict" /\ DOMAIN x.v = {}

\* the try block: {} for an empty output, a raise of json.loads, or a value
\* that is no dict
ParseLlmOutput(out) ==
    IF out = <<>> THEN EmptyDict
    ELSE LET r == json_loads(out)
         IN  IF r.ok /\ r.val.k = "dict" THEN r.val.v ELSE EmptyDict

PyStrList(xs) == PyList([i \in 1..Len(xs) |-> PyStr(xs[i])])

\* the dict heuristic_extract returns, as Python values
HeurDict(h) ==
    (K_account_name :> PyStr(h.account_name)) @@
    (K_industry :> PyStr(h.industry)) @@
    (K_business_model :> PyStr(h.business_model)) @@
    (K_use_case :> PyStr(h.use_case)) @@
    (K_pain_points :> PyStrList(h.pain_points)) @@
    (K_must_haves :> PyStrList(h.must_haves)) @@
    (K_nice_to_haves :> PyStrList(h.nice_to_haves)) @@
    (K_budget :> PyStr(h.budget)) @@
    (K_timeline :> PyStr(h.timeline)) @@
    (K_stakeholders :> PyStrList(h.stakeholders)) @@
    (K_open_questions :> PyStrList(h.open_questions))

\* {k: v for k, v in llm_data.items() if v not in [None, "", [], {}]}
NonEmptyItems(d) == [k \in {x \in DOMAIN d : ~IsEmptySentinel(d[x])} |-> d[k]]

\* {**heur, **overlay}: the overlay's keys win
MergeOver(heur, overlay) == overlay @@ heur

\* dict.setdefault(k, v)
SetDefault(d, k, v) == d @@ (k :> v)

extract_fields(t, out, c) ==
    LET llm_data == ParseLlmOutput(out)
        heur     == HeurDict(heuristic_extract(t))
        m        == MergeOver(heur, NonEmptyItems(llm_data))
    IN  SetDefault(SetDefault(SetDefault(SetDefault(m,
            K_source, PyStr(Unknown)),
            K_pii_redacted, PyBool(Get(c, "redact_pii", TRUE))),
            K_raw_text_excerpt, PyStr(<<>>)),
            K_text_hash, PyStr(<<>>))


(***************************************************************************)
(* Follow-up email                                                         *)
(***************************************************************************)
\* "行业/Industry: "
E_industry == <<"u884c","u4e1a","/","I","n","d","u","s","t","r","y",":"," ">>

\* "业务类型/Segment: "
E_segment == <<"u4e1a","u52a1","u7c7b","u578b","/","S","e","g","m","e","n","t",":"," ">>

\* "痛点/Pain points: "
E_pain == <<"u75db","u70b9","/","P","a","i","n"," ","p","o","i","n","t","s",":"," ">>

\* "关键需求/Must-haves: "
E_must == <<"u5173","u952e","u9700","u6c42","/","M","u","s","t","-","h","a","v","e","s",":"," ">>

\* "可选项/Nice-to-haves: "
E_nice == <<"u53ef","u9009","u9879","/","N","i","c","e","-","t","o","-","h","a","v","e","s",":"," ">>

\* "预算/Budget: "
E_budget == <<"u9884","u7b97","/","B","u","d","g","e","t",":"," ">>

\* "时间线/Timeline: "
E_timeline == <<"u65f6","u95f4","u7ebf","/","T","i","m","e","l","i","n","e",":"," ">>

\* "None"
s_None == <<"N","o","n","e">>

\* "- None for now / 暂无"
NoQuestionsBilingual == <<"-"," ","N","o","n","e"," ","f","o","r"," ","n","o","w"," ","/"," ","u6682","u65e0">>

\* "- 暂无"
NoQuestionsZh == <<"-"," ","u6682","u65e0">>

\* "BILINGUAL"
kw_BILINGUAL == <<"B","I","L","I","N","G","U","A","L">>

\* "Subject: Follow-up on your requirements & next steps / 需求跟进与下一步建议"
B_subject == <<"S","u","b","j","e","c","t",":"," ","F","o","l","l","o","w","-","u","p"," ","o","n"," ","y","o","u","r"," ","r","e","q","u","i","r","e","m","e","n","t","s"," ","&"," ","n","e","x","t"," ","s","t","e","p","s"," ","/"," ","u9700","u6c42","u8ddf","u8fdb","u4e0e","u4e0b","u4e00","u6b65","u5efa","u8bae">>

\* "Hi there / 你好，"
B_greeting == <<"H","i"," ","t","h","e","r","e"," ","/"," ","u4f60","u597d","uff0c">>

\* "Thanks for sharing your context. I captured the key points below / 感谢分享需求背景，关键信息如下："
B_intro == <<"T","h","a","n","k","s"," ","f","o","r"," ","s","h","a","r","i","n","g"," ","y","o","u","r"," ","c","o","n","t","e","x","t","."," ","I"," ","c","a","p","t","u","r","e","d"," ","t","h","e"," ","k","e","y"," ","p","o","i","n","t","s"," ","b","e","l","o","w"," ","/"," ","u611f","u8c22","u5206","u4eab","u9700","u6c42","u80cc","u666f","uff0c","u5173","u952e","u4fe1","u606f","u5982","u4e0b","uff1a">>

\* "Proposed next steps / 建议下一步："
B_steps == <<"P","r","o","p","o","s","e","d"," ","n","e","x","t"," ","s","t","e","p","s"," ","/"," ","u5efa","u8bae","u4e0b","u4e00","u6b65","uff1a">>

\* "Quick questions / 需要确认的问题："
B_questions == <<"Q","u","i","c","k"," ","q","u","e","s","t","i","o","n","s"," ","/"," ","u9700","u8981","u786e","u8ba4","u7684","u95ee","u9898","uff1a">>

\* "If you're available, I can share a short prototype and align on a POC plan this week."
B_closing_en == <<"I","f"," ","y","o","u","'","r","e"," ","a","v","a","i","l","a","b","l","e",","," ","I"," ","c","a","n"," ","s","h","a","r","e"," ","a"," ","s","h","o","r","t"," ","p","r","o","t","o","t","y","p","e"," ","a","n","d"," ","a","l","i","g","n"," ","o","n"," ","a"," ","P","O","C"," ","p","l","a","n"," ","t","h","i","s"," ","w","e","e","k",".">>

\* "如方便，我可以本周分享一个简版原型并对齐 POC 计划。"
B_closing_zh == <<"u5982","u65b9","u4fbf","uff0c","u6211","u53ef","u4ee5","u672c","u5468","u5206","u4eab","u4e00","u4e2a","u7b80","u7248","u539f","u578b","u5e76","u5bf9","u9f50"," ","P","O","C"," ","u8ba1","u5212","u3002">>

\* "Best / 谢谢，\n"
B_sign == <<"B","e","s","t"," ","/"," ","u8c22","u8c22","uff0c","\n">>

\* "主题：需求跟进与下一步建议"
Z_subject == <<"u4e3b","u9898","uff1a","u9700","u6c42","u8ddf","u8fdb","u4e0e","u4e0b","u4e00","u6b65","u5efa","u8bae">>

\* "你好，"
Z_greeting == <<"u4f60","u597d","uff0c">>

\* "感谢分享需求背景。我先把关键信息整理如下："
Z_intro == <<"u611f","u8c22","u5206","u4eab","u9700","u6c42","u80cc","u666f","u3002","u6211","u5148","u628a","u5173","u952e","u4fe1","u606f","u6574","u7406","u5982","u4e0b","uff1a">>

\* "建议下一步："
Z_steps == <<"u5efa","u8bae","u4e0b","u4e00","u6b65","uff1a">>

\* "需要进一步确认的问题："
Z_questions == <<"u9700","u8981","u8fdb","u4e00","u6b65","u786e","u8ba4","u7684","u95ee","u9898","uff1a">>

\* "如果你方便，我可以本周分享一个简版 workflow 原型，并对齐 POC 范围与时间线。"
Z_closing == <<"u5982","u679c","u4f60","u65b9","u4fbf","uff0c","u6211","u53ef","u4ee5","u672c","u5468","u5206","u4eab","u4e00","u4e2a","u7b80","u7248"," ","w","o","r","k","f","l","o","w"," ","u539f","u578b","uff0c","u5e76","u5bf9","u9f50"," ","P","O","C"," ","u8303","u56f4","u4e0e","u65f6","u95f4","u7ebf","u3002">>

\* "谢谢，\n"
Z_sign == <<"u8c22","u8c22","uff0c","\n">>

\* "You"
DefaultOwner == <<"Y","o","u">>

\* "ZH"
DefaultLanguage == <<"Z","H">>

\* str.upper on the letters of the alphabet
Upper(c) ==
    IF \E u \in DOMAIN LowerMap : LowerMap[u] = c
    THEN CHOOSE u \in DOMAIN LowerMap : LowerMap[u] = c
    ELSE c

UpperStr(s) == [i \in 1..Len(s) |-> Upper(s[i])]

RECURSIVE JoinWith(_, _)
\* sep.join(xs)
JoinWith(xs, sep) ==
    IF Len(xs) = 0 THEN <<>>
    ELSE IF Len(xs) = 1 THEN xs[1]
    ELSE xs[1] \o sep \o JoinWith(Tail(xs), sep)

\* the seven summary bullets
EmailBullets(f) ==
    LET nice == Get(f, "nice_to_haves", <<>>)
    IN  <<E_industry \o Get(f, "industry", s_None),
          E_segment \o Get(f, "business_model", Unknown),
          E_pain \o JoinWith(Get(f, "pain_points", <<>>), <<",", " ">>),
          E_must \o JoinWith(Get(f, "must_haves", <<>>), <<",", " ">>),
          E_nice \o (IF nice # <<>> THEN JoinWith(nice, <<",", " ">>) ELSE s_None),
          E_budget \o Get(f, "budget", s_None),
          E_timeline \o Get(f, "timeline", s_None)>>

\* f"- {q}" for each element
DashLines(xs) == [i \in 1..Len(xs) |-> <<"-", " ">> \o xs[i]]

\* the bilingual fallback in place of the Chinese one
question_lines_zh_as_bilingual(questions) ==
    IF questions # <<>> THEN DashLines(questions) ELSE <<NoQuestionsBilingual>>

question_lines_bilingual(questions) ==
    IF questions # <<>> THEN DashLines(questions) ELSE <<NoQuestionsBilingual>>

question_lines_zh(questions) ==
    IF questions # <<>> THEN DashLines(questions) ELSE <<NoQuestionsZh>>

\* f"{i+1}) {a}" for the first three actions
NumberedActions(as) ==
    [i \in 1..Min2(3, Len(as)) |-> <<<<"1">>, <<"2">>, <<"3">>>>[i] \o <<")", " ">> \o as[i]]

\* f"- {b.split(':',1)[0]}：{b.split(':',1)[1].strip()}"
ZhBullet(b) ==
    LET i == SetMin({k \in 1..Len(b) : b[k] = ":"})
    IN  <<"-", " ">> \o SubSeq(b, 1, i - 1) \o <<"uff1a">> \o Strip(SubSeq(b, i + 1, Len(b)))

generate_followup_email(f, s, owner, lang) ==
    LET bullets   == EmailBullets(f)
        acts      == generate_actions(f, s)
        questions == Get(f, "open_questions", <<>>)
        body ==
            IF UpperStr(lang) = kw_BILINGUAL
            THEN <<B_subject, <<>>, B_greeting, <<>>, B_intro>>
                 \o DashLines(bullets)
                 \o <<<<>>, B_steps>>
                 \o NumberedActions(acts)
                 \o <<<<>>, B_questions>>
                 \o question_lines_bilingual(questions)
                 \o <<<<>>, B_closing_en, B_closing_zh, <<>>, B_sign \o owner>>
            ELSE <<Z_subject, <<>>, Z_greeting, <<>>, Z_intro>>
                 \o [i \in 1..Len(bullets) |-> ZhBullet(bullets[i])]
                 \o <<<<>>, Z_steps>>
                 \o NumberedActions(acts)
                 \o <<<<>>, Z_questions>>
                 \o question_lines_zh(questions)
                 \o <<<<>>, Z_closing, <<>>, Z_sign \o owner>>
    IN  Strip(JoinWith(body, <<"\n">>))


(***************************************************************************)
(* Inputs of the model: bounded sets of texts, provider outputs, configs   *)
(* and records.                                                            *)
(***************************************************************************)
MaxSegs == 3

MaxRules == 2

MaxQuestions == 2

MaxMembers == 2

RECURSIVE Concats(_, _)
\* the texts made of at most n segments
Concats(segs, n) ==
    IF n = 0 THEN {<<>>}
    ELSE LET shorter == Concats(segs, n - 1)
         IN  shorter \cup {s \o g : s \in shorter, g \in segs}

RECURSIVE Tuples(_, _)
\* the sequences of at most n elements of S
Tuples(S, n) ==
    IF n = 0 THEN {<<>>}
    ELSE LET shorter == Tuples(S, n - 1)
         IN  shorter \cup {Append(s, x) : s \in shorter, x \in S}

\* texts about the account name: both markers, a name, a suffix, a filler
\* prefix, the terminators of the candidate, and a name of 38 characters
AccountSegments ==
    {kw_customer \o <<"uff1a">>, kw_company \o <<":">>, s_ABC, company_suffixes[1],
     company_prefixes[1], <<"uff08">>, <<"\n">>, <<" ">>, s_LongName}

\* texts about the business model and the CRM question
BusinessSegments ==
    {kw_B2B, s_b2b_lower, leadership_kw[1], enterprise_hit_alts[2], kw_CRM, s_crm_lower,
     kw_Salesforce, crm_negations[1], <<" ">>, <<"x">>}

ExtractTexts ==
    Concats(AccountSegments, MaxSegs) \cup Concats(BusinessSegments, MaxSegs)
        \cup {ScenarioText}

\* "5万"
s_5wan == <<"5","u4e07">>

\* "5k"
s_5k == <<"5","k">>

BareBudgetLine == kw_budget_zh \o <<"uff1a">> \o s_10wan \o <<"\n">>

BulletBudgetLine == <<"-"," ">> \o kw_budget_zh \o <<"uff1a">> \o s_5wan \o <<"\n">>

EnglishBudgetLine == kw_budget_en \o <<":">> \o s_5k \o <<"\n">>

BlankBulletBudget == <<"-"," ">> \o kw_budget_zh \o <<"uff1a"," ">>

BareTimelineLine == kw_timeline_zh \o <<"uff1a">> \o timeline_simple_alts[3] \o <<"\n">>

BulletTimelineLine == <<"-"," ">> \o kw_timeline_zh \o <<"uff1a">> \o ScenarioHorizon \o <<"\n">>

HorizonLine == s_Q3 \o <<"\n">>

UrgencyLine == urgency_alts[2] \o <<"\n">>

BlankTimelineLabel == kw_timeline_zh \o <<"uff1a"," ">>

\* lines about budget and timeline: a bare, a bulleted and an English label,
\* a horizon keyword, an urgency phrase, and labels with a blank value
PrioritySegments ==
    {BareBudgetLine, BulletBudgetLine, EnglishBudgetLine, BlankBulletBudget,
     BareTimelineLine, BulletTimelineLine, HorizonLine, UrgencyLine, BlankTimelineLabel}

PriorityTexts == Concats(PrioritySegments, MaxSegs)

\* "BOT"
s_BOT == <<"B","O","T">>

\* keywords of the three vocabularies: two pain keywords, a must-have that
\* contains one of them, a must-have that contains a nice-to-have, "bot" in
\* upper case, and CRM
KeywordSegments ==
    {pain_kw[7], pain_kw[12], must_kw[11], must_kw[19], nice_kw[3], s_BOT, kw_CRM, <<" ">>}

KeywordTexts == Concats(KeywordSegments, MaxSegs)

\* "Ziyu"
s_Ziyu == <<"Z","i","y","u">>

\* "bilingual"
s_bilingual_lower == <<"b","i","l","i","n","g","u","a","l">>

\* "EN"
s_EN == <<"E","N">>

\* two explicit roles (the second contains a leadership term), four terms
\* of the leadership vocabulary, and a separator
StakeholderSegments ==
    {role_kw[1], role_kw[6], leadership_kw[1], leadership_kw[3], leadership_kw[4],
     leadership_kw[5], <<" ">>}

StakeholderTexts == Concats(StakeholderSegments, MaxSegs)

AccountLine == kw_customer \o <<"uff1a">> \o ScenarioAccount \o <<"\n">>

IndustryLine == kw_industry \o <<"uff1a">> \o s_SaaS \o <<"\n">>

UnknownBudgetLine == kw_budget_zh \o <<"uff1a">> \o Unknown \o <<"\n">>

\* one line per condition of the open questions, and a budget line whose
\* value is the word "Unknown"
QuestionSegments ==
    {AccountLine, IndustryLine, kw_B2B \o <<" ">>, kw_CRM \o <<" ">>, BareBudgetLine,
     BareTimelineLine, role_kw[1] \o <<" ">>, UnknownBudgetLine}

QuestionTexts == Concats(QuestionSegments, MaxSegs)

AllQuestions ==
    <<Q_company, Q_industry, Q_b2b, Q_crm, Q_budget, Q_timeline, Q_stakeholders>>

MustSamples ==
    {<<UnclearReq>>, <<kw_CRM, kw_Salesforce>>, <<must_kw[2]>>, <<s_salesforce_lower, must_kw[1]>>,
     <<s_Workflow>>}

ScoreFields ==
    {[industry |-> i, must_haves |-> m, budget |-> b, timeline |-> t,
      open_questions |-> SubSeq(AllQuestions, 1, n)] :
        i \in {Unknown, <<>>, s_SaaS}, m \in MustSamples, b \in {Unknown, s_10wan},
        t \in {Unknown, s_Q3}, n \in 0..MaxQuestions}

\* a weight of the scoring table: set to val, or left out of the table
BaseChoices ==
    {[has |-> FALSE, val |-> 0], [has |-> TRUE, val |-> -30], [has |-> TRUE, val |-> 90]}

IncChoices ==
    {[has |-> FALSE, val |-> 0], [has |-> TRUE, val |-> -70], [has |-> TRUE, val |-> 60]}

Entry(k, ch) == IF ch.has THEN (k :> ch.val) ELSE EmptyDict

ScoringTables ==
    {Entry("base_fit", b) @@ Entry("fit_industry_known", i1)
        @@ Entry("fit_crm_salesforce", i2) @@ Entry("fit_mentions_automation_tracking", i3)
        @@ Entry("base_intent", b) @@ Entry("intent_budget_known", i1)
        @@ Entry("intent_timeline_known", i2) @@ Entry("intent_few_open_questions", i3) :
        b \in BaseChoices, i1 \in IncChoices, i2 \in IncChoices, i3 \in IncChoices}

\* stage rules with overlapping thresholds; two use neither prefix, one
\* leaves min_intent out and one min_fit
StageRules ==
    {("name" :> s_SQL_Ready) @@ ("min_fit" :> 70) @@ ("min_intent" :> 75),
     ("name" :> s_MQL_Nurture) @@ ("min_fit" :> 60) @@ ("min_intent" :> 50),
     ("name" :> s_Qualified) @@ ("min_fit" :> 50),
     ("name" :> s_sql_lite) @@ ("min_intent" :> 60),
     ("name" :> s_MQ) @@ ("min_fit" :> 0) @@ ("min_intent" :> 0)}

RuleTables == Tuples(StageRules, MaxRules)

ScoreConfigs ==
    {("scoring" :> sc) @@ ("stage_rules" :> <<>>) : sc \in ScoringTables}
        \cup {("stage_rules" :> rt) : rt \in RuleTables}

StageNames == {DefaultStage, s_SQL_Ready, s_MQL_Nurture, s_Qualified, s_sql_lite, kw_SQL}

ActionMustSamples ==
    {<<UnclearReq>>, <<kw_CRM>>, <<s_crm_lower, must_kw[7]>>, <<s_CRMs>>, <<must_kw[7]>>,
     <<s_Invoice, kw_CRM>>, <<must_kw[1]>>}

ActionFields ==
    {[must_haves |-> m, business_model |-> b] :
        m \in ActionMustSamples, b \in {kw_B2B, LikelyB2B, Unknown}}

ActionScores == {[stage |-> s, rating |-> RatingOf(s)] : s \in StageNames}

\* the open-question lists of the email: the first questions of the fixed
\* list, and two questions out of the fixed order
EmailQuestions ==
    {SubSeq(AllQuestions, 1, n) : n \in 0..MaxQuestions} \cup {<<Q_budget, Q_company>>}

EmailFields ==
    {[industry |-> s_SaaS, business_model |-> kw_B2B, pain_points |-> <<UnclearPain>>,
      must_haves |-> m, nice_to_haves |-> n, budget |-> s_10wan, timeline |-> s_Q3,
      open_questions |-> q] :
        m \in {<<UnclearReq>>, <<kw_CRM, must_kw[7]>>}, n \in {<<>>, <<nice_kw[3], nice_kw[8]>>},
        q \in EmailQuestions}

EmailScores == {[stage |-> s, rating |-> RatingOf(s)] : s \in {DefaultStage, s_SQL_Ready}}

\* owner and language of the config, either of them absent
EmailConfigs ==
    {o @@ l : o \in {EmptyDict, ("owner" :> s_Ziyu)},
              l \in {EmptyDict} \cup
                    {("language" :> x) : x \in {DefaultLanguage, kw_BILINGUAL, s_bilingual_lower, s_EN}}}

\* the values of a member of the provider's object: the four empty
\* sentinels, a name with a known suffix, a name of three characters, a
\* list, and false
PayloadValues ==
    {<<Tok("null")>>, <<StrTok(<<>>)>>, <<Tok("["), Tok("]")>>, <<Tok("{"), Tok("}")>>,
     <<StrTok(s_XYZ_Group)>>, <<StrTok(s_ABC)>>, <<Tok("["), StrTok(kw_CRM), Tok("]")>>,
     <<Tok("false")>>}

PayloadKeys == {K_account_name, K_must_haves, s_note}

PayloadMembers == {<<StrTok(k), Tok(":")>> \o v : k \in PayloadKeys, v \in PayloadValues}

RECURSIVE Commas(_)
Commas(ms) ==
    IF Len(ms) = 0 THEN <<>>
    ELSE IF Len(ms) = 1 THEN ms[1]
    ELSE ms[1] \o <<Tok(",")>> \o Commas(Tail(ms))

\* the outputs that parse to a mapping
MappingOutputs ==
    {<<Tok("{")>> \o Commas(ms) \o <<Tok("}")>> : ms \in Tuples(PayloadMembers, MaxMembers)}

\* the outputs that parse, but to no mapping
NonMappingOutputs ==
    {<<Tok("["), Tok("]")>>, <<StrTok(s_XYZ_Group)>>, <<Tok("null")>>, <<NumTok(<<"0">>)>>,
     <<Tok("["), StrTok(K_account_name), Tok(","), StrTok(s_XYZ_Group), Tok("]")>>}

\* the outputs json.loads raises on
MalformedOutputs ==
    {<<Tok("{")>>, <<Tok("bad")>>, <<Tok("{"), Tok("}"), Tok("}")>>,
     <<Tok("{"), StrTok(K_account_name), StrTok(s_XYZ_Group), Tok("}")>>,
     <<Tok("{"), StrTok(K_account_name), Tok(":"), StrTok(s_XYZ_Group), Tok(","), Tok("}")>>,
     <<Tok("{"), StrTok(K_account_name), Tok(":"), StrTok(s_XYZ_Group)>>,
     <<Tok("{"), NumTok(<<"1">>), Tok(":"), StrTok(s_XYZ_Group), Tok("}")>>,
     <<Tok("{"), StrTok(K_account_name), Tok(":"), Tok("["), StrTok(s_XYZ_Group), Tok(","), Tok("]"), Tok("}")>>}

LlmOutputs == MappingOutputs \cup NonMappingOutputs \cup MalformedOutputs \cup {<<>>}

\* the runs of the merge: the empty text under the default config, a text
\* with an account name under a config that turns redaction off
MergeRuns ==
    {[t |-> <<>>, c |-> EmptyDict],
     [t |-> kw_customer \o <<"uff1a">> \o ScenarioAccount, c |-> ("redact_pii" :> FALSE)]}

RunTexts == {<<>>, ScenarioText, kw_customer \o <<"uff1a">> \o ScenarioAccount \o <<"\n">> \o kw_CRM}

RunConfigs == {EmptyDict, ("stage_rules" :> <<("name" :> s_MQL_Nurture) @@ ("min_fit" :> 50)>>)}

(***************************************************************************)
(* The state machine.  pc is the position of one run: "text" once the      *)
(* input is read, then "extracted" / "merged", "scored", "planned".        *)
(***************************************************************************)
NoRecord == [none |-> TRUE]

TypeOK == pc \in {"text", "extracted", "merged", "scored", "planned", "mailed"}

\* a run on the heuristic path, as cmd_run with the call_llm stub
Init ==
    /\ pc = "text"
    /\ text \in RunTexts
    /\ llm_out = call_llm
    /\ cfg \in RunConfigs
    /\ fields = NoRecord
    /\ merged = NoRecord
    /\ scores = NoRecord
    /\ actions = <<>>
    /\ email = <<>>

\* heuristic_extract on any text of the bounded set
InitExtract ==
    /\ pc = "text"
    /\ text \in ExtractTexts
    /\ llm_out = call_llm
    /\ cfg = EmptyDict
    /\ fields = NoRecord
    /\ merged = NoRecord
    /\ scores = NoRecord
    /\ actions = <<>>
    /\ email = <<>>

\* heuristic_extract on the texts about budget and timeline
InitPriority ==
    /\ pc = "text"
    /\ text \in PriorityTexts
    /\ llm_out = call_llm
    /\ cfg = EmptyDict
    /\ fields = NoRecord
    /\ merged = NoRecord
    /\ scores = NoRecord
    /\ actions = <<>>
    /\ email = <<>>

\* heuristic_extract on the texts made of keywords
InitKeywords ==
    /\ pc = "text"
    /\ text \in KeywordTexts
    /\ llm_out = call_llm
    /\ cfg = EmptyDict
    /\ fields = NoRecord
    /\ merged = NoRecord
    /\ scores = NoRecord
    /\ actions = <<>>
    /\ email = <<>>

\* generate_followup_email on any record, score result and config of the
\* bounded sets
InitEmail ==
    /\ pc = "planned"
    /\ text = <<>>
    /\ llm_out = call_llm
    /\ cfg \in EmailConfigs
    /\ fields \in EmailFields
    /\ merged = NoRecord
    /\ scores \in EmailScores
    /\ actions = generate_actions(fields, scores)
    /\ email = <<>>

\* heuristic_extract on the texts made of roles and leadership terms
InitStakeholders ==
    /\ pc = "text"
    /\ text \in StakeholderTexts
    /\ llm_out = call_llm
    /\ cfg = EmptyDict
    /\ fields = NoRecord
    /\ merged = NoRecord
    /\ scores = NoRecord
    /\ actions = <<>>
    /\ email = <<>>

\* heuristic_extract on the texts made of one line per open question
InitQuestions ==
    /\ pc = "text"
    /\ text \in QuestionTexts
    /\ llm_out = call_llm
    /\ cfg = EmptyDict
    /\ fields = NoRecord
    /\ merged = NoRecord
    /\ scores = NoRecord
    /\ actions = <<>>
    /\ email = <<>>

\* extract_fields with a provider plugged in place of the stub
InitMerge ==
    /\ pc = "text"
    /\ \E r \in MergeRuns : text = r.t /\ cfg = r.c
    /\ llm_out \in LlmOutputs
    /\ fields = NoRecord
    /\ merged = NoRecord
    /\ scores = NoRecord
    /\ actions = <<>>
    /\ email = <<>>

\* score_and_stage on any record and config of the bounded sets
InitScore ==
    /\ pc = "extracted"
    /\ text = <<>>
    /\ llm_out = call_llm
    /\ cfg \in ScoreConfigs
    /\ fields \in ScoreFields
    /\ merged = NoRecord
    /\ scores = NoRecord
    /\ actions = <<>>
    /\ email = <<>>

\* generate_actions on any record and score result of the bounded sets
InitActions ==
    /\ pc = "scored"
    /\ text = <<>>
    /\ llm_out = call_llm
    /\ cfg = EmptyDict
    /\ fields \in ActionFields
    /\ merged = NoRecord
    /\ scores \in ActionScores
    /\ actions = <<>>
    /\ email = <<>>

HeuristicExtract ==
    /\ pc = "text"
    /\ fields' = heuristic_extract(text)
    /\ pc' = "extracted"
    /\ UNCHANGED <<text, llm_out, cfg, merged, scores, actions, email>>

ExtractFields ==
    /\ pc = "text"
    /\ merged' = extract_fields(text, llm_out, cfg)
    /\ pc' = "merged"
    /\ UNCHANGED <<text, llm_out, cfg, fields, scores, actions, email>>

ScoreAndStage ==
    /\ pc = "extracted"
    /\ scores' = score_and_stage(fields, cfg)
    /\ pc' = "scored"
    /\ UNCHANGED <<text, llm_out, cfg, fields, merged, actions, email>>

GenerateActions ==
    /\ pc = "scored"
    /\ actions' = generate_actions(fields, scores)
    /\ pc' = "planned"
    /\ UNCHANGED <<text, llm_out, cfg, fields, merged, scores, email>>

\* owner = args.owner or cfg.get("owner", "You"), with no --owner given
RunOwner(c) == Get(c, "owner", DefaultOwner)

\* lang = args.lang or cfg.get("language", "ZH"), with no --lang given
RunLang(c) == Get(c, "language", DefaultLanguage)

GenerateFollowupEmail ==
    /\ pc = "planned"
    /\ email' = generate_followup_email(fields, scores, RunOwner(cfg), RunLang(cfg))
    /\ pc' = "mailed"
    /\ UNCHANGED <<text, llm_out, cfg, fields, merged, scores, actions>>

\* one run of cmd_run: with the stub of call_llm ("{}") extract_fields adds
\* only the metadata keys to the record of heuristic_extract, which is the
\* record score_and_stage and generate_actions read
Next == HeuristicExtract \/ ScoreAndStage \/ GenerateActions \/ GenerateFollowupEmail

Spec == Init /\ [][Next]_vars

NextExtract == HeuristicExtract

SpecExtract == InitExtract /\ [][NextExtract]_vars

SpecPriority == InitPriority /\ [][NextExtract]_vars

SpecKeywords == InitKeywords /\ [][NextExtract]_vars

SpecStakeholders == InitStakeholders /\ [][NextExtract]_vars

SpecQuestions == InitQuestions /\ [][NextExtract]_vars

NextMerge == ExtractFields

SpecMerge == InitMerge /\ [][NextMerge]_vars

NextScore == ScoreAndStage

SpecScore == InitScore /\ [][NextScore]_vars

NextActions == GenerateActions

SpecActions == InitActions /\ [][NextActions]_vars

NextEmail == GenerateFollowupEmail

SpecEmail == InitEmail /\ [][NextEmail]_vars


(***************************************************************************)
(* Claims                                                                  *)
(***************************************************************************)
\* the weight a scoring table gives, or the default of the code
C1_Weight(key, dflt) ==
    LET sc == IF "scoring" \in DOMAIN cfg THEN cfg["scoring"] ELSE EmptyDict
    IN  IF key \in DOMAIN sc THEN sc[key] ELSE dflt

C1_IsKnown(key) == fields[key] # <<>> /\ fields[key] # Unknown

\* base_fit plus the fit increments whose predicate holds
C1_FitSum ==
    C1_Weight("base_fit", DefaultBaseFit)
    + (IF C1_IsKnown("industry")
       THEN C1_Weight("fit_industry_known", DefaultFitIndustryKnown) ELSE 0)
    + (IF \E k \in 1..Len(fields.must_haves) :
             WordOccurs(fields.must_haves[k], kw_Salesforce, TRUE)
       THEN C1_Weight("fit_crm_salesforce", DefaultFitCrmSalesforce) ELSE 0)
    + (IF \E k \in 1..Len(fields.must_haves) : \E a \in 1..Len(automation_kw) :
             Occurs(fields.must_haves[k], automation_kw[a], FALSE)
       THEN C1_Weight("fit_mentions_automation_tracking", DefaultFitAutomation) ELSE 0)

\* base_intent plus the intent increments whose predicate holds
C1_IntentSum ==
    C1_Weight("base_intent", DefaultBaseIntent)
    + (IF C1_IsKnown("budget")
       THEN C1_Weight("intent_budget_known", DefaultIntentBudgetKnown) ELSE 0)
    + (IF C1_IsKnown("timeline")
       THEN C1_Weight("intent_timeline_known", DefaultIntentTimelineKnown) ELSE 0)
    + (IF Len(fields.open_questions) <= 1
       THEN C1_Weight("intent_few_open_questions", DefaultIntentFewQuestions) ELSE 0)

C1_ClampOnce(x) == IF x < 0 THEN 0 ELSE IF x > 100 THEN 100 ELSE x

\* C1: for every record and every scoring table (negative weights and sums
\* above 100 included), fit_score and intent_score are integers in [0,100],
\* each the base plus the increments whose predicate holds, clamped once
\* after all increments are added.
C1_ScoresClampedOnce ==
    pc = "scored" =>
        /\ scores.fit_score \in 0..100
        /\ scores.intent_score \in 0..100
        /\ scores.fit_score = C1_ClampOnce(C1_FitSum)
        /\ scores.intent_score = C1_ClampOnce(C1_IntentSum)

\* a run whose fit sum passes 100 although one of its increments is negative
C1_Witness ==
    /\ pc = "scored"
    /\ C1_FitSum > 100
    /\ scores.fit_score = 100
    /\ C1_Weight("fit_mentions_automation_tracking", DefaultFitAutomation) < 0
    /\ C1_FitSum - C1_Weight("fit_mentions_automation_tracking", DefaultFitAutomation)
          = C1_Weight("base_fit", DefaultBaseFit)
            + C1_Weight("fit_industry_known", DefaultFitIndustryKnown)
            + C1_Weight("fit_crm_salesforce", DefaultFitCrmSalesforce)

C2_Rules == IF "stage_rules" \in DOMAIN cfg THEN cfg["stage_rules"] ELSE <<>>

C2_Threshold(rule, key) == IF key \in DOMAIN rule THEN rule[key] ELSE 0

\* rule k of the table is satisfied by the scores of the result
C2_Satisfied(k) ==
    /\ scores.fit_score >= C2_Threshold(C2_Rules[k], "min_fit")
    /\ scores.intent_score >= C2_Threshold(C2_Rules[k], "min_intent")

\* C2: the stage is the name of the first rule, in table order, whose two
\* thresholds the scores reach, also when later rules are satisfied too;
\* with no rule satisfied (or an empty table) it is the fixed default.
C2_StageFirstMatch ==
    pc = "scored" =>
        IF \E k \in 1..Len(C2_Rules) : C2_Satisfied(k)
        THEN \E k \in 1..Len(C2_Rules) :
                /\ C2_Satisfied(k)
                /\ \A j \in 1..(k - 1) : ~C2_Satisfied(j)
                /\ scores.stage = C2_Rules[k]["name"]
        ELSE scores.stage = DefaultStage

\* two rules of different names are satisfied and the first one wins
C2_Witness ==
    /\ pc = "scored"
    /\ Len(C2_Rules) = 2
    /\ C2_Satisfied(1) /\ C2_Satisfied(2)
    /\ C2_Rules[1]["name"] # C2_Rules[2]["name"]
    /\ scores.stage = C2_Rules[1]["name"]

C3_Prefix(s, a, b, c) == Len(s) >= 3 /\ s[1] = a /\ s[2] = b /\ s[3] = c

\* C3: the rating depends on the prefix of the stage name only: Hot for
\* "SQL", Warm for "MQL", Cold otherwise (the default stage and the stages
\* of a custom table that uses neither prefix included).
C3_RatingFromPrefix ==
    pc = "scored" =>
        /\ C3_Prefix(scores.stage, "S", "Q", "L") => scores.rating = Hot
        /\ C3_Prefix(scores.stage, "M", "Q", "L") => scores.rating = Warm
        /\ (~C3_Prefix(scores.stage, "S", "Q", "L") /\ ~C3_Prefix(scores.stage, "M", "Q", "L"))
              => scores.rating = Cold

\* a custom rule whose name differs from "SQL" in letter case only decides
\* the stage, and the rating is Cold
C3_Witness ==
    /\ pc = "scored"
    /\ scores.stage = s_sql_lite
    /\ scores.rating = Cold

C4_CrmAmongMustHaves ==
    \E k \in 1..Len(fields.must_haves) : WordOccurs(fields.must_haves[k], kw_CRM, TRUE)

C4_InvoiceAmongMustHaves ==
    \E k \in 1..Len(fields.must_haves) : \E a \in 1..Len(invoice_alts) :
        Occurs(fields.must_haves[k], invoice_alts[a], TRUE)

\* C4: the actions are exactly: the POC action if the stage starts with
\* "SQL"; then the CRM action if CRM is among the must-haves or the
\* business model is "Likely B2B (inferred)"; then the three baseline
\* actions in their order; then the invoice action if an invoice term is
\* among the must-haves.  Nothing else, nothing twice.
C4_ActionOrder ==
    pc = "planned" =>
        /\ actions =
              (IF C3_Prefix(scores.stage, "S", "Q", "L") THEN <<A_poc>> ELSE <<>>)
              \o (IF C4_CrmAmongMustHaves \/ fields.business_model = LikelyB2B
                  THEN <<A_crm>> ELSE <<>>)
              \o <<A_stakeholders, A_call, A_prototype>>
              \o (IF C4_InvoiceAmongMustHaves THEN <<A_invoice>> ELSE <<>>)
        /\ \A i, j \in 1..Len(actions) : i # j => actions[i] # actions[j]

\* all three conditions fire: six actions, POC first, invoice last
C4_Witness ==
    /\ pc = "planned"
    /\ Len(actions) = 6
    /\ actions[1] = A_poc /\ actions[2] = A_crm /\ actions[6] = A_invoice

\* the record heuristic_extract returns for the text, as Python values
C5_Heuristic == HeurDict(heuristic_extract(text))

\* the mapping the output parses to (none for any other output)
C5_Payload ==
    LET r == json_loads(llm_out)
    IN  IF llm_out # <<>> /\ r.ok /\ r.val.k = "dict" THEN r.val.v ELSE EmptyDict

\* null, the empty string, the empty list, the empty mapping
C5_Empty(x) ==
    \/ x.k = "null"
    \/ x.k \in {"str", "list"} /\ Len(x.v) = 0
    \/ x.k = "dict" /\ DOMAIN x.v = {}

\* C5: the merge returns the heuristic record with a field overwritten
\* exactly when the parsed payload has that key with a value that is no
\* empty sentinel; for an output that is malformed or parses to no mapping
\* every field is the heuristic one.
C5_MergeNonEmptyWins ==
    pc = "merged" =>
        LET H == C5_Heuristic
            D == C5_Payload
        IN  /\ DOMAIN H \subseteq DOMAIN merged
            /\ \A k \in DOMAIN H :
                  IF k \in DOMAIN D /\ ~C5_Empty(D[k])
                  THEN PyEq(merged[k], D[k])
                  ELSE PyEq(merged[k], H[k])
            /\ llm_out \in MalformedOutputs \cup NonMappingOutputs \cup {<<>>} =>
                  \A k \in DOMAIN H : PyEq(merged[k], H[k])

\* a payload with an empty account_name and a non-empty must_haves: the
\* first is kept from the heuristic record, the second is overwritten
C5_Witness ==
    /\ pc = "merged"
    /\ K_account_name \in DOMAIN C5_Payload
    /\ C5_Payload[K_account_name].k = "str"
    /\ C5_Payload[K_account_name].v = <<>>
    /\ PyEq(merged[K_account_name], PyStr(ScenarioAccount))
    /\ K_must_haves \in DOMAIN C5_Payload
    /\ PyEq(merged[K_must_haves], PyList(<<PyStr(kw_CRM)>>))
    /\ ~PyEq(merged[K_must_haves], C5_Heuristic[K_must_haves])

\* the guardrail: 4 to 40 characters, no filler prefix, a known suffix
C6_PassesGuardrail(s) ==
    /\ Len(s) >= 4
    /\ Len(s) <= 40
    /\ \A k \in 1..Len(company_prefixes) :
          SubSeq(s, 1, Len(company_prefixes[k])) # company_prefixes[k]
    /\ \E k \in 1..Len(company_suffixes) :
          /\ Len(s) >= Len(company_suffixes[k])
          /\ SubSeq(s, Len(s) - Len(company_suffixes[k]) + 1, Len(s)) = company_suffixes[k]

\* s stands in the text after one of the two markers
C6_IsCandidate(s) ==
    \E i \in 1..Len(text) : \E j \in (i + 1)..Len(text) :
        /\ MatchAt(text, i, kw_customer, TRUE) \/ MatchAt(text, i, kw_company, TRUE)
        /\ MatchAt(text, j, s, FALSE)

\* C6: account_name is "Unknown" or a matched candidate that passes the
\* guardrail; whenever it is "Unknown" (the candidate failed the guardrail,
\* or none was matched) open_questions holds the "Company name?" question.
C6_AccountGuardrail ==
    pc = "extracted" =>
        /\ fields.account_name # Unknown =>
              C6_PassesGuardrail(fields.account_name) /\ C6_IsCandidate(fields.account_name)
        /\ fields.account_name = Unknown =>
              \E k \in 1..Len(fields.open_questions) : fields.open_questions[k] = Q_company

\* a candidate of 42 characters with a known suffix is discarded
C6_Witness ==
    /\ pc = "extracted"
    /\ text = kw_customer \o <<"uff1a">> \o s_LongName \o company_suffixes[1]
    /\ fields.account_name = Unknown
    /\ fields.open_questions[1] = Q_company

\* C7: for the one-line scenario "客户：ABC有限公司。行业：B2B 医疗器械。
\* 预算：10万。时间线：2周内。" the result has account_name "ABC有限公司",
\* an industry containing "医疗器械", business_model "B2B", a budget other
\* than "Unknown" and a timeline containing "2周内" or "2 周内".
C7_ScenarioExtraction ==
    (pc = "extracted" /\ text = ScenarioText) =>
        /\ fields.account_name = ScenarioAccount
        /\ Occurs(fields.industry, ScenarioIndustry, FALSE)
        /\ fields.business_model = kw_B2B
        /\ fields.budget # Unknown
        /\ Occurs(fields.timeline, ScenarioHorizon, FALSE)
              \/ Occurs(fields.timeline, ScenarioHorizonSpaced, FALSE)

C8_StringFields == {"account_name", "industry", "business_model", "use_case", "budget", "timeline"}

C8_ListFields == {"pain_points", "must_haves", "nice_to_haves", "stakeholders", "open_questions"}

\* C8: for every text, the empty one included, the record has all eleven
\* lead fields, no string field is empty and no list field holds the same
\* element twice.
C8_SentinelCompleteness ==
    pc = "extracted" =>
        /\ DOMAIN fields = C8_StringFields \cup C8_ListFields
        /\ \A f \in C8_StringFields : Len(fields[f]) > 0
        /\ \A f \in C8_ListFields : \A i, j \in 1..Len(fields[f]) :
              i # j => fields[f][i] # fields[f][j]

\* the record of the empty text: every sentinel is in place
C8_Witness ==
    /\ pc = "extracted"
    /\ text = <<>>
    /\ fields.account_name = Unknown /\ fields.budget = Unknown /\ fields.timeline = Unknown
    /\ fields.stakeholders = <<Unknown>>
    /\ fields.nice_to_haves = <<>>

\* C9: business_model is one of "B2B", "B2C", "Likely B2B (inferred)",
\* "Unknown", whatever the letter case of the token in the text.
C9_BusinessModelEnum ==
    pc = "extracted" => fields.business_model \in {kw_B2B, kw_B2C, LikelyB2B, Unknown}

C10_HasQuestion(q) == \E k \in 1..Len(fields.open_questions) : fields.open_questions[k] = q

\* an explicit B2B/B2C token, as the two patterns of the code find it
C10_ExplicitToken == SearchModelWord(text).hit \/ SearchModelParen(text).hit

\* C10: open_questions holds the "Which CRM are you using?" question
\* exactly when the business model was inferred, or "CRM" is among the
\* must-haves and the text names no CRM product and holds no CRM negation;
\* the business model is the inferred one exactly when there is no explicit
\* token and both a leadership and an enterprise-process marker.
C10_CrmQuestionTrigger ==
    pc = "extracted" =>
        /\ C10_HasQuestion(Q_crm) <=>
              \/ fields.business_model = LikelyB2B
              \/ /\ \E k \in 1..Len(fields.must_haves) : fields.must_haves[k] = kw_CRM
                 /\ ~WordOccurs(text, kw_Salesforce, TRUE)
                 /\ ~SearchCrmNegated(text)
        /\ fields.business_model = LikelyB2B <=>
              ~C10_ExplicitToken /\ leadership_hit(text) /\ enterprise_hit(text)

\* an inferred business model in a text that never mentions CRM
C10_Witness ==
    /\ pc = "extracted"
    /\ fields.business_model = LikelyB2B
    /\ ~Occurs(text, kw_CRM, TRUE)
    /\ C10_HasQuestion(Q_crm)

RECURSIVE C11_Pick(_)
\* the stripped capture of the first pattern, in priority order, that
\* matches; the empty string when none does
C11_Pick(ms) ==
    IF ms = <<>> THEN <<>>
    ELSE IF Head(ms).hit THEN Strip(Head(ms).g)
    ELSE C11_Pick(Tail(ms))

\* bulleted label, bare label, English label
C11_BudgetPatterns ==
    <<SearchBullet(text, kw_budget_zh), SearchLabel(text, kw_budget_zh, {"\n"}),
      SearchLabel(text, kw_budget_en, {"\n"})>>

\* bulleted label, bare label, English label, horizon keyword
C11_TimelinePatterns ==
    <<SearchBullet(text, kw_timeline_zh), SearchLabel(text, kw_timeline_zh, {"\n"}),
      SearchLabel(text, kw_timeline_en, {"\n"}), SearchHorizon(text)>>

C11_UrgencyPhrase == \E k \in 1..Len(urgency_alts) : Occurs(text, urgency_alts[k], TRUE)

\* C11 (as stated): the urgency phrase is used only when none of the
\* explicit timeline patterns matches.
C11_UrgencyOnlyWithoutMatch ==
    pc = "extracted" =>
        (fields.timeline = AsapTimeline =>
            \A k \in 1..Len(C11_TimelinePatterns) : ~C11_TimelinePatterns[k].hit)

\* C11 (amended): budget and timeline are the stripped capture of the first
\* pattern that matches, in the order bulleted label, bare label, English
\* label (then, for timeline, horizon keyword), wherever the matches stand
\* in the text; a blank capture counts as no value and no later pattern is
\* tried; a timeline with no value is the ASAP tag when an urgency phrase
\* occurs; a field with no value is "Unknown".
C11_PriorityResolution ==
    pc = "extracted" =>
        LET b == C11_Pick(C11_BudgetPatterns)
            t == C11_Pick(C11_TimelinePatterns)
        IN  /\ fields.budget = IF b # <<>> THEN b ELSE Unknown
            /\ fields.timeline =
                  IF t # <<>> THEN t
                  ELSE IF C11_UrgencyPhrase THEN AsapTimeline ELSE Unknown

\* a bare label stands before the bulleted one and the bulleted value wins;
\* no timeline pattern matches and the urgency phrase gives the ASAP tag
C11_Witness ==
    /\ pc = "extracted"
    /\ text = BareBudgetLine \o BulletBudgetLine \o UrgencyLine
    /\ fields.budget = s_5wan
    /\ fields.timeline = AsapTimeline

\* the keywords of a vocabulary that occur in the text, in vocabulary order
C12_Found(kws) == SelectSeq(kws, LAMBDA kw : \E i \in 1..Len(text) : MatchAt(text, i, kw, TRUE))

C12_Elems(xs) == {xs[k] : k \in 1..Len(xs)}

\* C12 (as stated): pain_points, must_haves and nice_to_haves are each exactly the
\* keywords of their own vocabulary that occur in the text (any letter
\* case), in vocabulary order, so the empty list when none occurs; no
\* keyword is in two of the lists and "bot" is in nice_to_haves only.
C12_KeywordSubsequences ==
    pc = "extracted" =>
        /\ fields.pain_points = C12_Found(pain_kw)
        /\ fields.must_haves = C12_Found(must_kw)
        /\ fields.nice_to_haves = C12_Found(nice_kw)
        /\ C12_Elems(fields.pain_points) \cap C12_Elems(fields.must_haves) = {}
        /\ C12_Elems(fields.pain_points) \cap C12_Elems(fields.nice_to_haves) = {}
        /\ C12_Elems(fields.must_haves) \cap C12_Elems(fields.nice_to_haves) = {}
        /\ nice_kw[8] \notin C12_Elems(fields.pain_points) \cup C12_Elems(fields.must_haves)

\* the list, or its one-element placeholder when it is empty
C12_OrPlaceholder(xs, placeholder) == IF Len(xs) = 0 THEN <<placeholder>> ELSE xs

\* C12 (amended): each list is the keywords of its own vocabulary that
\* occur in the text (any letter case), in vocabulary order and without
\* duplicates; when none occurs nice_to_haves is empty, pain_points is the
\* placeholder "Unclear pain points" and must_haves the placeholder
\* "Unclear requirements"; no keyword is in two of the lists and "bot" is
\* in nice_to_haves only.
C12_KeywordsOrPlaceholder ==
    pc = "extracted" =>
        /\ fields.pain_points = C12_OrPlaceholder(C12_Found(pain_kw), UnclearPain)
        /\ fields.must_haves = C12_OrPlaceholder(C12_Found(must_kw), UnclearReq)
        /\ fields.nice_to_haves = C12_Found(nice_kw)
        /\ \A f \in {"pain_points", "must_haves", "nice_to_haves"} :
              \A i, j \in 1..Len(fields[f]) : i # j => fields[f][i] # fields[f][j]
        /\ C12_Elems(fields.pain_points) \cap C12_Elems(fields.must_haves) = {}
        /\ C12_Elems(fields.pain_points) \cap C12_Elems(fields.nice_to_haves) = {}
        /\ C12_Elems(fields.must_haves) \cap C12_Elems(fields.nice_to_haves) = {}
        /\ nice_kw[8] \notin C12_Elems(fields.pain_points) \cup C12_Elems(fields.must_haves)

\* "BOT" before "导出 Excel/CSV": nice_to_haves is in vocabulary order, the
\* must-have is reported once, pain_points is the placeholder
C12_Witness ==
    /\ pc = "extracted"
    /\ text = s_BOT \o must_kw[19]
    /\ fields.nice_to_haves = <<nice_kw[3], nice_kw[8]>>
    /\ fields.must_haves = <<must_kw[19]>>
    /\ fields.pain_points = <<UnclearPain>>

RECURSIVE C13_Lines(_)
\* the lines of a string
C13_Lines(s) ==
    LET ends == {i \in 1..Len(s) : s[i] = "\n"}
    IN  IF ends = {} THEN <<s>>
        ELSE LET i == CHOOSE x \in ends : \A y \in ends : x <= y
             IN  <<SubSeq(s, 1, i - 1)>> \o C13_Lines(SubSeq(s, i + 1, Len(s)))

\* the lines between the open-questions heading and the next empty line
C13_Block ==
    LET ls == C13_Lines(email)
        h  == CHOOSE i \in 1..Len(ls) : ls[i] \in {Z_questions, B_questions}
        e  == CHOOSE i \in (h + 1)..Len(ls) :
                  ls[i] = <<>> /\ \A j \in (h + 1)..(i - 1) : ls[j] # <<>>
    IN  SubSeq(ls, h + 1, e - 1)

\* one line per open question, or the fallback line of the mode
C13_Expected(bilingual) ==
    IF Len(fields.open_questions) > 0
    THEN [i \in 1..Len(fields.open_questions) |-> <<"-", " ">> \o fields.open_questions[i]]
    ELSE IF bilingual THEN <<NoQuestionsBilingual>> ELSE <<NoQuestionsZh>>

\* the mode is BILINGUAL in any letter case
C13_AnyCaseBilingual ==
    LET l == RunLang(cfg)
    IN  Len(l) = Len(kw_BILINGUAL) /\ \A i \in 1..Len(l) : Lower(l[i]) = Lower(kw_BILINGUAL[i])

\* C13 (as stated): the open-questions block is one line per open question
\* in list order, or, for an empty list, "- None for now / 暂无" when the
\* mode is BILINGUAL and "- 暂无" for ZH and every other mode, which renders
\* the email of ZH.
C13_FallbackByExactMode ==
    pc = "mailed" =>
        /\ C13_Block = C13_Expected(RunLang(cfg) = kw_BILINGUAL)
        /\ RunLang(cfg) # kw_BILINGUAL =>
              email = generate_followup_email(fields, scores, RunOwner(cfg), DefaultLanguage)

\* C13 (amended): the same, the mode being BILINGUAL when it is that word
\* in any letter case ("bilingual" renders the bilingual email); every
\* other mode renders the email of ZH.
C13_FallbackByUpperCasedMode ==
    pc = "mailed" =>
        /\ C13_Block = C13_Expected(C13_AnyCaseBilingual)
        /\ ~C13_AnyCaseBilingual =>
              email = generate_followup_email(fields, scores, RunOwner(cfg), DefaultLanguage)

\* an unrecognized mode and no open question: the Chinese fallback line
C13_Witness ==
    /\ pc = "mailed"
    /\ RunLang(cfg) = s_EN
    /\ fields.open_questions = <<>>
    /\ C13_Block = <<NoQuestionsZh>>

\* the terms of a vocabulary that occur in the text, in vocabulary order
C14_Found(kws) == SelectSeq(kws, LAMBDA kw : \E i \in 1..Len(text) : MatchAt(text, i, kw, TRUE))

\* C14: the leadership vocabulary (领导, 管理层, 总监, management, manager,
\* director) is consulted only when no explicit-role keyword occurs; when a
\* leadership term is found, every leadership term found is replaced by the
\* one marker "领导/管理层（Reporting stakeholder）", appended once, and no
\* raw leadership term remains in the list.
C14_LeadershipNormalised ==
    pc = "extracted" =>
        /\ Len(C14_Found(role_kw)) > 0 => fields.stakeholders = C14_Found(role_kw)
        /\ (Len(C14_Found(role_kw)) = 0 /\ Len(C14_Found(leadership_kw)) > 0) =>
              fields.stakeholders = <<ReportingStakeholder>>
        /\ \A k \in 1..Len(fields.stakeholders) : \A j \in 1..Len(leadership_kw) :
              fields.stakeholders[k] # leadership_kw[j]

\* the question, when its condition holds
C15_If(cond, q) == IF cond THEN <<q>> ELSE <<>>

\* the CRM-question trigger, on the text and the record
C15_CrmTrigger ==
    \/ fields.business_model = LikelyB2B
    \/ /\ \E k \in 1..Len(fields.must_haves) : fields.must_haves[k] = kw_CRM
       /\ ~WordOccurs(text, kw_Salesforce, TRUE)
       /\ ~SearchCrmNegated(text)

\* C15: open_questions is the fixed list (company name, industry, B2B or
\* B2C, which CRM, budget, timeline, decision makers) restricted, in that
\* order, to the questions whose condition holds in the same record:
\* account_name = "Unknown"; industry = "Unknown"; no explicit B2B/B2C
\* token; the CRM trigger; budget = "Unknown"; timeline = "Unknown"; no
\* stakeholder found.
C15_QuestionsFollowRecord ==
    pc = "extracted" =>
        fields.open_questions =
            C15_If(fields.account_name = Unknown, Q_company)
            \o C15_If(fields.industry = Unknown, Q_industry)
            \o C15_If(~(SearchModelWord(text).hit \/ SearchModelParen(text).hit), Q_b2b)
            \o C15_If(C15_CrmTrigger, Q_crm)
            \o C15_If(fields.budget = Unknown, Q_budget)
            \o C15_If(fields.timeline = Unknown, Q_timeline)
            \o C15_If(fields.stakeholders = <<Unknown>>, Q_stakeholders)

\* C16: whatever the external payload, the account_name of the record
\* extract_fields returns is "Unknown" or a string that passes the
\* guardrail (4 to 40 characters, no filler prefix, a known suffix).
C16_MergeKeepsGuardrail ==
    pc = "merged" =>
        /\ merged[K_account_name].k = "str"
        /\ \/ merged[K_account_name].v = Unknown
           \/ C6_PassesGuardrail(merged[K_account_name].v)

====
